---- MODULE Spec2Model ----
(***************************************************************************)
(* Model of the version-2 confidential transaction code of                 *)
(* go-incognito-sdk-v2 (transaction/tx_ver2/tx_ver2.go): the SigPubKey     *)
(* index-matrix codec, the MLSAG ring builder, the secret key deriver and  *)
(* the transaction assembler / hasher.                                     *)
(*                                                                         *)
(* and of the base58 caches of key/committee.go.                           *)
(*                                                                         *)
(* Five specifications share the module:                                   *)
(*   SpecCodec  SigPubKey.Bytes / SigPubKey.SetBytes                       *)
(*   SpecRing   ParseParamsForRing, generateMLSAGRingWithIndexes,          *)
(*              createPrivKeyMlsag                                         *)
(*   Spec       Tx.Init (also called again on the same object),            *)
(*              Tx.InitTxSalary, Tx.Hash, Tx.HashWithoutMetadataSig        *)
(*   SpecOTA    Tx.ListOTAHashH                                            *)
(*   SpecCache  CommitteePublicKey.ToBase58 / GetMiningKeyBase58           *)
(***************************************************************************)
EXTENDS Integers, Sequences, FiniteSets, TLC

VARIABLES
    cIdx,     \* SigPubKey.Indexes of the receiver of Bytes / SetBytes
    cBuf,     \* the byte slice at hand: argument of SetBytes, result of Bytes
    cErr,     \* outcome of the last codec call: "" (nil error), an error, "panic"
    cHist,    \* the codec calls made so far, in order
    cIdx0,    \* the matrix the run started from
    cBuf0,    \* the byte slice the run started from
    rArgs,    \* arguments of generateMLSAGRingWithIndexes / createPrivKeyMlsag
    rRing,    \* what generateMLSAGRingWithIndexes returned
    rKeys,    \* what createPrivKeyMlsag returned
    rPc,      \* "args", then "ring" after the ring builder, "keys" after the deriver
    tx,       \* the Tx object Init is called on
    txParams, \* the argument of Tx.Init, with the outcomes of the external calls
    txErr,    \* the error Tx.Init returned ("" for nil)
    txMsg,    \* the hashedMessage prove handed to signOnMessage, if it did
    txPc,     \* "new" before the call of Init, "done" after it, "again"
              \* after a second call on the same object; "newSalary" and
              \* "salaryDone" for InitTxSalary
    tx0,      \* the Tx object as it was before the call
    hLog,     \* the calls of Hash / HashWithoutMetadataSig made after it
    sLog,     \* the calls of signOnMessage made on the object: the receiver
              \* before and after, the message and the error returned
    oProof,   \* tx.Proof of the receiver of ListOTAHashH
    oResult,  \* what ListOTAHashH returned
    oPc,      \* "new" before the call of ListOTAHashH, "done" after it
    kToBase58Cache,           \* key.ToBase58Cache
    kGetMiningKeyBase58Cache, \* key.GetMiningKeyBase58Cache
    kLast,    \* the last cache call: its receiver, scheme and result
    kCalls    \* number of cache calls made

codecVars == <<cIdx, cBuf, cErr, cHist, cIdx0, cBuf0>>
ringVars == <<rArgs, rRing, rKeys, rPc>>
txVars == <<tx, txParams, txErr, txMsg, txPc, tx0, hLog, sLog>>
otaVars == <<oProof, oResult, oPc>>
cacheVars == <<kToBase58Cache, kGetMiningKeyBase58Cache, kLast, kCalls>>

vars == <<cIdx, cBuf, cErr, cHist, cIdx0, cBuf0, rArgs, rRing, rKeys, rPc,
          tx, txParams, txErr, txMsg, txPc, tx0, hLog, sLog,
          oProof, oResult, oPc,
          kToBase58Cache, kGetMiningKeyBase58Cache, kLast, kCalls>>

-----------------------------------------------------------------------------
(* Bounds of the model. *)

MaxRows == 2        \* rows of the enumerated matrices
MaxCols == 2        \* columns of the enumerated matrices
MaxRawLen == 6      \* length of the enumerated byte strings given to SetBytes
MaxInputs == 2      \* input coins of a transaction
MaxOutputs == 2     \* output coins of a transaction
MaxRing == 3        \* ring size
MaxAmount == 3      \* amount of an output coin
MaxFee == 1         \* fee of a transaction
MaxOtaOutputs == 3  \* output coins of the receiver of ListOTAHashH
MaxCacheCalls == 2  \* calls of ToBase58 / GetMiningKeyBase58 in a run

(* common.MaxTxSize, in units of 1024 bytes (GetTxActualSize). *)
MaxTxSize == 100
Kb == 1024

(* utils.TxVersion2Number *)
TxVersion2Number == 2

(* utils.MaxSizeByte: the largest value a length byte can hold. *)
MaxSizeByte == 255

-----------------------------------------------------------------------------
(* math/big: a big.Int holds its magnitude as a normalised little-endian   *)
(* word slice (no zero word at the most significant end).  The model keeps *)
(* that layout with 8-bit words.                                           *)

Reverse(s) == [k \in 1..Len(s) |-> s[Len(s) + 1 - k]]

RECURSIVE norm(_)
norm(z) ==
    IF z = <<>> THEN <<>>
    ELSE IF z[Len(z)] = 0 THEN norm(SubSeq(z, 1, Len(z) - 1))
    ELSE z

RECURSIVE stripLeadingZeros(_)
stripLeadingZeros(bs) ==
    IF bs = <<>> THEN <<>>
    ELSE IF bs[1] = 0 THEN stripLeadingZeros(Tail(bs))
    ELSE bs

(* new(big.Int).SetUint64(v) *)
RECURSIVE SetUint64(_)
SetUint64(v) ==
    IF v = 0 THEN <<>> ELSE <<v % 256>> \o SetUint64(v \div 256)

(* x.Bytes(): the absolute value as a big-endian byte slice, leading zero  *)
(* bytes skipped; the zero integer gives the empty slice.                  *)
BigBytes(x) == stripLeadingZeros(Reverse(x))

(* new(big.Int).SetBytes(buf): buf read as a big-endian unsigned integer.  *)
BigSetBytes(buf) == norm(Reverse(buf))

byte(x) == x % 256

-----------------------------------------------------------------------------
(* SigPubKey.Bytes *)

ErrEmpty == "TxSigPublicKeyVer2.ToBytes: Indexes is empty"
ErrRows == "TxSigPublicKeyVer2.ToBytes: Indexes is too large, too many rows"
ErrCols == "TxSigPublicKeyVer2.ToBytes: Indexes is too large, too many columns"
ErrRect == "TxSigPublicKeyVer2.ToBytes: Indexes is not a rectangle array"
ErrCell == "TxSigPublicKeyVer2.ToBytes: IndexesByte is too large"

(* Mutant: the cells visited column by column. *)
cellAt_columnMajor(idx, m, k) ==
    idx[((k - 1) % Len(idx)) + 1][((k - 1) \div Len(idx)) + 1]

(* The n*m cells in the order the loops of lines 54-55 visit them:         *)
(* row 0 left to right, then row 1, ...                                    *)
cellAt(idx, m, k) == idx[((k - 1) \div m) + 1][((k - 1) % m) + 1]

(* Mutant: the zero integer written as one zero byte. *)
appendCell_zeroByte(x) ==
    LET currentByte == IF BigBytes(x) = <<>> THEN <<0>> ELSE BigBytes(x)
        lengthByte == Len(currentByte)
    IN  <<byte(lengthByte)>> \o currentByte

(* Lines 56-62 for one cell: the length byte, then the magnitude. *)
appendCell(x) ==
    LET currentByte == BigBytes(x)
        lengthByte == Len(currentByte)
    IN  <<byte(lengthByte)>> \o currentByte

(* What the loop appends for cells lo..hi, the cell range split in halves  *)
(* (the concatenation is associative, so the halving changes nothing).     *)
RECURSIVE appendCells(_, _, _, _)
appendCells(idx, m, lo, hi) ==
    IF lo > hi THEN <<>>
    ELSE IF lo = hi THEN appendCell(cellAt(idx, m, lo))
    ELSE LET mid == (lo + hi) \div 2
         IN  appendCells(idx, m, lo, mid) \o appendCells(idx, m, mid + 1, hi)

(* Lines 51-65.  The first cell longer than MaxSizeByte ends the call with *)
(* (nil, err), whatever was appended before it.                            *)
encodeCells(idx, n, m) ==
    IF \E k \in 1..(n * m) : Len(BigBytes(cellAt(idx, m, k))) > MaxSizeByte
    THEN [b |-> <<>>, err |-> ErrCell]
    ELSE [b |-> <<byte(n), byte(m)>> \o appendCells(idx, m, 1, n * m),
          err |-> ""]

(* Mutant: the row count compared with >= instead of >. *)
Bytes_rowsOffByOne(idx) ==
    LET n == Len(idx) IN
    IF n = 0 THEN [b |-> <<>>, err |-> ErrEmpty]
    ELSE IF n >= MaxSizeByte THEN [b |-> <<>>, err |-> ErrRows]
    ELSE LET m == Len(idx[1]) IN
         IF m > MaxSizeByte THEN [b |-> <<>>, err |-> ErrCols]
         ELSE IF \E i \in 2..n : Len(idx[i]) # m
              THEN [b |-> <<>>, err |-> ErrRect]
              ELSE encodeCells(idx, n, m)

Bytes(idx) ==
    LET n == Len(idx) IN
    IF n = 0 THEN [b |-> <<>>, err |-> ErrEmpty]
    ELSE IF n > MaxSizeByte THEN [b |-> <<>>, err |-> ErrRows]
    ELSE LET m == Len(idx[1]) IN
         IF m > MaxSizeByte THEN [b |-> <<>>, err |-> ErrCols]
         ELSE IF \E i \in 2..n : Len(idx[i]) # m
              THEN [b |-> <<>>, err |-> ErrRect]
              ELSE encodeCells(idx, n, m)

-----------------------------------------------------------------------------
(* SigPubKey.SetBytes *)

ErrShort == "txSigPubKeyFromBytes: cannot parse length of Indexes, length of input byte is too small"
ErrCellLen == "txSigPubKeyFromBytes: cannot parse byte length of index[i][j], length of input byte is too small"
ErrCellBody == "txSigPubKeyFromBytes: cannot parse big int index[i][j], length of input byte is too small"
Panic == "panic"

(* Go's bounds checks: b[i] needs 0 <= i < len(b), b[lo:hi] needs          *)
(* 0 <= lo <= hi <= len(b) (the capacity equals the length here).          *)
inRange(b, i) == 0 <= i /\ i < Len(b)
sliceInRange(b, lo, hi) == 0 <= lo /\ lo <= hi /\ hi <= Len(b)

(* Mutant: the length byte read without the check of line 79. *)
readCell_noLengthCheck(b, offset) ==
    IF ~inRange(b, offset)
    THEN [offset |-> offset, cells |-> <<>>, err |-> Panic]
    ELSE LET byteLength == b[offset + 1]
             off1 == offset + 1
         IN  IF off1 + byteLength > Len(b)
             THEN [offset |-> off1, cells |-> <<>>, err |-> ErrCellBody]
             ELSE IF ~sliceInRange(b, off1, off1 + byteLength)
             THEN [offset |-> off1, cells |-> <<>>, err |-> Panic]
             ELSE LET currentByte == SubSeq(b, off1 + 1, off1 + byteLength)
                  IN  [offset |-> off1 + byteLength,
                       cells |-> <<BigSetBytes(currentByte)>>,
                       err |-> ""]

(* Lines 79-89 for one cell read at the 0-based position offset: the      *)
(* position after the cell and the integer read, or the error.  An index   *)
(* or a slice bound outside b is a run-time panic.                         *)
readCell(b, offset) ==
    IF offset >= Len(b)
    THEN [offset |-> offset, cells |-> <<>>, err |-> ErrCellLen]
    ELSE IF ~inRange(b, offset)
    THEN [offset |-> offset, cells |-> <<>>, err |-> Panic]
    ELSE LET byteLength == b[offset + 1]
             off1 == offset + 1
         IN  IF off1 + byteLength > Len(b)
             THEN [offset |-> off1, cells |-> <<>>, err |-> ErrCellBody]
             ELSE IF ~sliceInRange(b, off1, off1 + byteLength)
             THEN [offset |-> off1, cells |-> <<>>, err |-> Panic]
             ELSE LET currentByte == SubSeq(b, off1 + 1, off1 + byteLength)
                  IN  [offset |-> off1 + byteLength,
                       cells |-> <<BigSetBytes(currentByte)>>,
                       err |-> ""]

(* The loops of lines 76-92 reading k cells in order from offset on: the   *)
(* first half of the cells, then the rest from where the first half ended; *)
(* the first error ends the call.                                          *)
RECURSIVE readCells(_, _, _)
readCells(b, offset, k) ==
    IF k = 0 THEN [offset |-> offset, cells |-> <<>>, err |-> ""]
    ELSE IF k = 1 THEN readCell(b, offset)
    ELSE LET h == k \div 2
             first == readCells(b, offset, h)
         IN  IF first.err # "" THEN first
             ELSE LET rest == readCells(b, first.offset, k - h)
                  IN  IF rest.err # "" THEN rest
                      ELSE [offset |-> rest.offset,
                            cells |-> first.cells \o rest.cells,
                            err |-> ""]

(* Mutant: the cells stored column by column. *)
decodeCells_transposed(b, n, m) ==
    LET r == readCells(b, 2, n * m)
    IN  IF r.err # "" THEN [indexes |-> <<>>, err |-> r.err]
        ELSE [indexes |-> [i \in 1..n |-> [j \in 1..m |-> r.cells[(j - 1) * n + i]]],
              err |-> ""]

(* Lines 72-96: n rows of m cells each, filled in reading order. *)
decodeCells(b, n, m) ==
    LET r == readCells(b, 2, n * m)
    IN  IF r.err # "" THEN [indexes |-> <<>>, err |-> r.err]
        ELSE [indexes |-> [i \in 1..n |-> [j \in 1..m |-> r.cells[(i - 1) * m + j]]],
              err |-> ""]

(* Mutant: the row count read from b[1] and the column count from b[0]. *)
SetBytes_swappedDims(b) ==
    IF Len(b) < 2 THEN [indexes |-> <<>>, err |-> ErrShort]
    ELSE decodeCells(b, b[2], b[1])

(* Lines 69-74, then the loops: n is b[0], m is b[1]. *)
SetBytes(b) ==
    IF Len(b) < 2 THEN [indexes |-> <<>>, err |-> ErrShort]
    ELSE decodeCells(b, b[1], b[2])

-----------------------------------------------------------------------------
(* Inputs of the codec runs. *)

CellValues == {SetUint64(0), SetUint64(1), SetUint64(256)}

RowsOfWidth(w) == [1..w -> CellValues]
AllRows == UNION {RowsOfWidth(w) : w \in 0..MaxCols}
SmallMatrices == UNION {[1..n -> AllRows] : n \in 0..MaxRows}

(* The integer 256^(k-1): the smallest magnitude of k bytes. *)
BigOfLen(k) == [i \in 1..k |-> IF i = k THEN 1 ELSE 0]

ExampleMatrix ==
    << <<SetUint64(1), SetUint64(256)>>, <<SetUint64(65536), SetUint64(0)>> >>

BoundaryMatrices ==
    { ExampleMatrix,
      [i \in 1..MaxSizeByte |-> <<>>],
      [i \in 1..(MaxSizeByte + 1) |-> <<>>],
      [i \in 1..MaxSizeByte |-> <<SetUint64(i)>>],
      << [j \in 1..MaxSizeByte |-> SetUint64(0)] >>,
      << [j \in 1..(MaxSizeByte + 1) |-> SetUint64(0)] >>,
      << <<SetUint64(1), BigOfLen(MaxSizeByte)>> >>,
      << <<SetUint64(1), BigOfLen(MaxSizeByte + 1)>> >>,
      << <<SetUint64(1)>>, <<BigOfLen(MaxSizeByte + 1)>> >>,
      << <<>>, [j \in 1..(MaxSizeByte + 1) |-> SetUint64(0)] >> }

InputMatrices == SmallMatrices \cup BoundaryMatrices

RawAlphabet == {0, 1, 2}
SmallRawInputs == UNION {[1..k -> RawAlphabet] : k \in 0..MaxRawLen}

(* The 13 bytes the specification's example gives for ExampleMatrix. *)
ExampleBytesOfSpec == <<2, 2, 1, 1, 2, 1, 0, 3, 1, 0, 0, 1, 0>>

BoundaryRawInputs ==
    { ExampleBytesOfSpec,
      <<MaxSizeByte, MaxSizeByte>>,
      <<MaxSizeByte, 0>>,
      <<1, 1, MaxSizeByte, 1, 2>> }

RawInputs == SmallRawInputs \cup BoundaryRawInputs

-----------------------------------------------------------------------------
(* The codec state machine: a matrix is encoded and the bytes decoded      *)
(* again, or a byte string is decoded and the matrix encoded again.        *)

CodecIdle ==
    /\ cIdx = <<>> /\ cBuf = <<>> /\ cErr = "" /\ cHist = <<>>
    /\ cIdx0 = <<>> /\ cBuf0 = <<>>

RingIdle ==
    /\ rArgs = <<>> /\ rRing = <<>> /\ rKeys = <<>> /\ rPc = "idle"

TxIdle ==
    /\ tx = <<>> /\ txParams = <<>> /\ txErr = "" /\ txMsg = <<>> /\ txPc = "idle"
    /\ tx0 = <<>> /\ hLog = <<>> /\ sLog = <<>>

OtaIdle ==
    /\ oProof = <<>> /\ oResult = <<>> /\ oPc = "idle"

CacheIdle ==
    /\ kToBase58Cache = <<>> /\ kGetMiningKeyBase58Cache = <<>>
    /\ kLast = <<>> /\ kCalls = 0

CodecInit ==
    /\ RingIdle
    /\ TxIdle
    /\ OtaIdle
    /\ CacheIdle
    /\ cErr = ""
    /\ cHist = <<>>
    /\ \/ /\ cIdx0 \in InputMatrices
          /\ cIdx = cIdx0
          /\ cBuf0 = <<>>
          /\ cBuf = <<>>
       \/ /\ cBuf0 \in RawInputs
          /\ cBuf = cBuf0
          /\ cIdx0 = <<>>
          /\ cIdx = <<>>

(* b, err := sigPub.Bytes() *)
CallBytes ==
    /\ \/ cHist = <<>> /\ cBuf0 = <<>> /\ cBuf = <<>>
       \/ cHist = <<"SetBytes">> /\ cErr = ""
    /\ LET r == Bytes(cIdx)
       IN  /\ cBuf' = r.b
           /\ cErr' = r.err
    /\ cHist' = Append(cHist, "Bytes")
    /\ UNCHANGED <<cIdx, cIdx0, cBuf0>>
    /\ UNCHANGED ringVars
    /\ UNCHANGED txVars
    /\ UNCHANGED otaVars
    /\ UNCHANGED cacheVars

(* err := sigPub.SetBytes(b) *)
CallSetBytes ==
    /\ \/ cHist = <<>> /\ cIdx0 = <<>>
       \/ cHist = <<"Bytes">> /\ cErr = ""
    /\ LET r == SetBytes(cBuf)
       IN  /\ cIdx' = IF r.err = "" THEN r.indexes ELSE cIdx
           /\ cErr' = r.err
    /\ cHist' = Append(cHist, "SetBytes")
    /\ UNCHANGED <<cBuf, cIdx0, cBuf0>>
    /\ UNCHANGED ringVars
    /\ UNCHANGED txVars
    /\ UNCHANGED otaVars
    /\ UNCHANGED cacheVars

CodecNext == CallBytes \/ CallSetBytes

SpecCodec == CodecInit /\ [][CodecNext]_vars

(* Sum of f[lo..hi], the range split in halves. *)
RECURSIVE SumRange(_, _, _)
SumRange(f, lo, hi) ==
    IF lo > hi THEN 0
    ELSE IF lo = hi THEN f[lo]
    ELSE LET mid == (lo + hi) \div 2
         IN  SumRange(f, lo, mid) + SumRange(f, mid + 1, hi)

-----------------------------------------------------------------------------
(* crypto.Point and crypto.Scalar.  A point is written by its coordinates  *)
(* over three independent generators of the group: the public-key base,    *)
(* the Pedersen value generator and the Pedersen randomness generator.     *)
(* Amounts are 64-bit and a transaction has at most 255 coins, so no sum   *)
(* of amounts reaches the group order: integers stand for the scalars.     *)

Point(sk, v, r) == [sk |-> sk, v |-> v, r |-> r]
NilPoint == [nil |-> TRUE]
Identity == Point(0, 0, 0)
PointAdd(p, q) == Point(p.sk + q.sk, p.v + q.v, p.r + q.r)
PointSub(p, q) == Point(p.sk - q.sk, p.v - q.v, p.r - q.r)
ScalarMult(p, s) == Point(p.sk * s, p.v * s, p.r * s)
IsPointEqual(p, q) == p = q

(* privacy.PedCom.G[PedersenValueIndex], privacy.PedCom.G[PedersenRandomnessIndex] *)
PedComGValue == Point(0, 1, 0)
PedComGRandomness == Point(0, 0, 1)

(* The commitment of a coin of amount v and randomness r. *)
Commit(v, r) == PointAdd(ScalarMult(PedComGValue, v), ScalarMult(PedComGRandomness, r))

(* coin.PlainCoin / coin.CoinV2 accessors *)
GetPublicKey(c) == c.publicKey
GetCommitment(c) == c.commitment
GetRandomness(c) == c.randomness

(* in.ParsePrivateKeyOfCoin(senderSK): the coin's MLSAG private key, or an *)
(* error when the coin cannot be opened with the sender's key.             *)
ErrParseKey == "cannot parse private key of coin"
ParsePrivateKeyOfCoin(c) ==
    IF c.keyErr THEN [key |-> 0, err |-> ErrParseKey]
    ELSE [key |-> c.privKey, err |-> ""]

(* tx_generic.CalculateSumOutputsWithFee: the sum of the output coins'     *)
(* commitments plus the commitment to the fee with zero randomness.        *)
RECURSIVE sumCommitments(_, _)
sumCommitments(coins, k) ==
    IF k = 0 THEN Identity
    ELSE PointAdd(sumCommitments(coins, k - 1), GetCommitment(coins[k]))

CalculateSumOutputsWithFee(outputCoins, fee) ==
    PointAdd(sumCommitments(outputCoins, Len(outputCoins)),
             ScalarMult(PedComGValue, fee))

-----------------------------------------------------------------------------
(* ParseParamsForRing *)

KeyCommitmentIndices == "CommitmentIndices"
KeyCommitments == "Commitments"
KeyPublicKeys == "PublicKeys"
KeyAssetTags == "AssetTags"
KeyMyIndices == "MyIndices"
KvKeys == {KeyCommitmentIndices, KeyCommitments, KeyPublicKeys, KeyAssetTags, KeyMyIndices}

(* The dynamic type of a value of the map[string]interface{}. *)
TUint64s == "[]uint64"
TPoints == "[]*crypto.Point"
TOther == "other"

ErrKvNil == "kvargs is nil: need more params to proceed"
ErrNoCmtIndices == "decoy commitment indices not found"
ErrBadCmtIndices == "cannot parse commitment indices"
ErrFewCmtIndices == "not enough decoy commitment indices"
ErrNoCommitments == "decoy commitment list not found"
ErrBadCommitments == "cannot parse decoy commitment indices"
ErrFewCommitments == "not enough decoy commitments"
ErrNoPublicKeys == "decoy public keys not found"
ErrBadPublicKeys == "cannot parse decoy public keys"
ErrFewPublicKeys == "not enough decoy public keys"
ErrNoAssetTags == "decoy asset tags not found"
ErrBadAssetTags == "cannot parse decoy asset tags"
ErrNoMyIndices == "inputCoin commitment indices not found"
ErrBadMyIndices == "cannot parse inputCoin commitment indices"
ErrMyIndicesLen == "not enough indices for input coins"

parseFail(err) ==
    [cmtIndices |-> <<>>, myIndices |-> <<>>, commitments |-> <<>>,
     publicKeys |-> <<>>, assetTags |-> <<>>, err |-> err]

(* tmp, ok := kvArgs[key] *)
kvHas(kvArgs, key) == key \in DOMAIN kvArgs.m
(* list, ok = tmp.(T) *)
kvIs(kvArgs, key, T) == kvArgs.m[key].type = T
kvList(kvArgs, key) == kvArgs.m[key].list

(* Mutant: the length of "my indices" only checked from below. *)
ParseParamsForRing_myIndicesAtLeast(kvArgs, lenInput, ringSize) ==
    IF kvArgs.isNil THEN parseFail(ErrKvNil)
    ELSE IF ~kvHas(kvArgs, KeyCommitmentIndices) THEN parseFail(ErrNoCmtIndices)
    ELSE IF ~kvIs(kvArgs, KeyCommitmentIndices, TUint64s) THEN parseFail(ErrBadCmtIndices)
    ELSE IF Len(kvList(kvArgs, KeyCommitmentIndices)) < lenInput * (ringSize - 1)
         THEN parseFail(ErrFewCmtIndices)
    ELSE IF ~kvHas(kvArgs, KeyCommitments) THEN parseFail(ErrNoCommitments)
    ELSE IF ~kvIs(kvArgs, KeyCommitments, TPoints) THEN parseFail(ErrBadCommitments)
    ELSE IF Len(kvList(kvArgs, KeyCommitments)) < lenInput * (ringSize - 1)
         THEN parseFail(ErrFewCommitments)
    ELSE IF ~kvHas(kvArgs, KeyPublicKeys) THEN parseFail(ErrNoPublicKeys)
    ELSE IF ~kvIs(kvArgs, KeyPublicKeys, TPoints) THEN parseFail(ErrBadPublicKeys)
    ELSE IF Len(kvList(kvArgs, KeyPublicKeys)) < lenInput * (ringSize - 1)
         THEN parseFail(ErrFewPublicKeys)
    ELSE IF ~kvHas(kvArgs, KeyAssetTags) THEN parseFail(ErrNoAssetTags)
    ELSE IF ~kvIs(kvArgs, KeyAssetTags, TPoints) THEN parseFail(ErrBadAssetTags)
    ELSE IF ~kvHas(kvArgs, KeyMyIndices) THEN parseFail(ErrNoMyIndices)
    ELSE IF ~kvIs(kvArgs, KeyMyIndices, TUint64s) THEN parseFail(ErrBadMyIndices)
    ELSE IF Len(kvList(kvArgs, KeyMyIndices)) < lenInput THEN parseFail(ErrMyIndicesLen)
    ELSE [cmtIndices |-> kvList(kvArgs, KeyCommitmentIndices),
          myIndices |-> kvList(kvArgs, KeyMyIndices),
          commitments |-> kvList(kvArgs, KeyCommitments),
          publicKeys |-> kvList(kvArgs, KeyPublicKeys),
          assetTags |-> kvList(kvArgs, KeyAssetTags),
          err |-> ""]

(* Mutant: the length check of lines 334-336 is in force. *)
ParseParamsForRing_assetTagsLength(kvArgs, lenInput, ringSize) ==
    IF kvArgs.isNil THEN parseFail(ErrKvNil)
    ELSE IF ~kvHas(kvArgs, KeyCommitmentIndices) THEN parseFail(ErrNoCmtIndices)
    ELSE IF ~kvIs(kvArgs, KeyCommitmentIndices, TUint64s) THEN parseFail(ErrBadCmtIndices)
    ELSE IF Len(kvList(kvArgs, KeyCommitmentIndices)) < lenInput * (ringSize - 1)
         THEN parseFail(ErrFewCmtIndices)
    ELSE IF ~kvHas(kvArgs, KeyCommitments) THEN parseFail(ErrNoCommitments)
    ELSE IF ~kvIs(kvArgs, KeyCommitments, TPoints) THEN parseFail(ErrBadCommitments)
    ELSE IF Len(kvList(kvArgs, KeyCommitments)) < lenInput * (ringSize - 1)
         THEN parseFail(ErrFewCommitments)
    ELSE IF ~kvHas(kvArgs, KeyPublicKeys) THEN parseFail(ErrNoPublicKeys)
    ELSE IF ~kvIs(kvArgs, KeyPublicKeys, TPoints) THEN parseFail(ErrBadPublicKeys)
    ELSE IF Len(kvList(kvArgs, KeyPublicKeys)) < lenInput * (ringSize - 1)
         THEN parseFail(ErrFewPublicKeys)
    ELSE IF ~kvHas(kvArgs, KeyAssetTags) THEN parseFail(ErrNoAssetTags)
    ELSE IF ~kvIs(kvArgs, KeyAssetTags, TPoints) THEN parseFail(ErrBadAssetTags)
    ELSE IF Len(kvList(kvArgs, KeyAssetTags)) < lenInput * (ringSize - 1)
         THEN parseFail(ErrBadAssetTags)
    ELSE IF ~kvHas(kvArgs, KeyMyIndices) THEN parseFail(ErrNoMyIndices)
    ELSE IF ~kvIs(kvArgs, KeyMyIndices, TUint64s) THEN parseFail(ErrBadMyIndices)
    ELSE IF Len(kvList(kvArgs, KeyMyIndices)) # lenInput THEN parseFail(ErrMyIndicesLen)
    ELSE [cmtIndices |-> kvList(kvArgs, KeyCommitmentIndices),
          myIndices |-> kvList(kvArgs, KeyMyIndices),
          commitments |-> kvList(kvArgs, KeyCommitments),
          publicKeys |-> kvList(kvArgs, KeyPublicKeys),
          assetTags |-> kvList(kvArgs, KeyAssetTags),
          err |-> ""]

ParseParamsForRing(kvArgs, lenInput, ringSize) ==
    IF kvArgs.isNil THEN parseFail(ErrKvNil)
    ELSE IF ~kvHas(kvArgs, KeyCommitmentIndices) THEN parseFail(ErrNoCmtIndices)
    ELSE IF ~kvIs(kvArgs, KeyCommitmentIndices, TUint64s) THEN parseFail(ErrBadCmtIndices)
    ELSE IF Len(kvList(kvArgs, KeyCommitmentIndices)) < lenInput * (ringSize - 1)
         THEN parseFail(ErrFewCmtIndices)
    ELSE IF ~kvHas(kvArgs, KeyCommitments) THEN parseFail(ErrNoCommitments)
    ELSE IF ~kvIs(kvArgs, KeyCommitments, TPoints) THEN parseFail(ErrBadCommitments)
    ELSE IF Len(kvList(kvArgs, KeyCommitments)) < lenInput * (ringSize - 1)
         THEN parseFail(ErrFewCommitments)
    ELSE IF ~kvHas(kvArgs, KeyPublicKeys) THEN parseFail(ErrNoPublicKeys)
    ELSE IF ~kvIs(kvArgs, KeyPublicKeys, TPoints) THEN parseFail(ErrBadPublicKeys)
    ELSE IF Len(kvList(kvArgs, KeyPublicKeys)) < lenInput * (ringSize - 1)
         THEN parseFail(ErrFewPublicKeys)
    ELSE IF ~kvHas(kvArgs, KeyAssetTags) THEN parseFail(ErrNoAssetTags)
    ELSE IF ~kvIs(kvArgs, KeyAssetTags, TPoints) THEN parseFail(ErrBadAssetTags)
    ELSE IF ~kvHas(kvArgs, KeyMyIndices) THEN parseFail(ErrNoMyIndices)
    ELSE IF ~kvIs(kvArgs, KeyMyIndices, TUint64s) THEN parseFail(ErrBadMyIndices)
    ELSE IF Len(kvList(kvArgs, KeyMyIndices)) # lenInput THEN parseFail(ErrMyIndicesLen)
    ELSE [cmtIndices |-> kvList(kvArgs, KeyCommitmentIndices),
          myIndices |-> kvList(kvArgs, KeyMyIndices),
          commitments |-> kvList(kvArgs, KeyCommitments),
          publicKeys |-> kvList(kvArgs, KeyPublicKeys),
          assetTags |-> kvList(kvArgs, KeyAssetTags),
          err |-> ""]

-----------------------------------------------------------------------------
(* generateMLSAGRingWithIndexes *)

ringFail(err) ==
    [ring |-> <<>>, indices |-> <<>>, commitmentToZero |-> NilPoint, err |-> err]

RECURSIVE addPoints(_, _, _)
addPoints(acc, points, k) ==
    IF k = 0 THEN acc ELSE PointAdd(addPoints(acc, points, k - 1), points[k])

(* Mutant: the real inputs are written in reverse order. *)
realRow_reversed(inputCoins, myIndices, start) ==
    LET n == Len(inputCoins)
    IN  [row |-> [j \in 1..n |-> GetPublicKey(inputCoins[n + 1 - j])],
         rowIndexes |-> [j \in 1..n |-> SetUint64(myIndices[n + 1 - j])],
         sumInputs |-> addPoints(start, [j \in 1..n |-> GetCommitment(inputCoins[j])], n),
         currentIndex |-> 0,
         err |-> ""]

(* Lines 383-387: the row of the real inputs. *)
realRow(inputCoins, myIndices, start) ==
    LET n == Len(inputCoins)
    IN  [row |-> [j \in 1..n |-> GetPublicKey(inputCoins[j])],
         rowIndexes |-> [j \in 1..n |-> SetUint64(myIndices[j])],
         sumInputs |-> addPoints(start, [j \in 1..n |-> GetCommitment(inputCoins[j])], n),
         currentIndex |-> 0,
         err |-> ""]

(* Mutant: the cursor does not advance. *)
decoyRow_cursorStuck(n, p, currentIndex, start) ==
    IF \E j \in 0..(n - 1) :
           \/ ~inRange(p.cmtIndices, currentIndex + j)
           \/ ~inRange(p.publicKeys, currentIndex + j)
           \/ ~inRange(p.commitments, currentIndex + j)
    THEN [row |-> <<>>, rowIndexes |-> <<>>, sumInputs |-> start,
          currentIndex |-> currentIndex, err |-> Panic]
    ELSE [row |-> [j \in 1..n |-> p.publicKeys[currentIndex + j]],
          rowIndexes |-> [j \in 1..n |-> SetUint64(p.cmtIndices[currentIndex + j])],
          sumInputs |-> addPoints(start, [j \in 1..n |-> p.commitments[currentIndex + j]], n),
          currentIndex |-> currentIndex,
          err |-> ""]

(* Lines 389-395: a decoy row, read from the 0-based position currentIndex *)
(* of the flat lists on; the cursor advances by one per column.            *)
decoyRow(n, p, currentIndex, start) ==
    IF \E j \in 0..(n - 1) :
           \/ ~inRange(p.cmtIndices, currentIndex + j)
           \/ ~inRange(p.publicKeys, currentIndex + j)
           \/ ~inRange(p.commitments, currentIndex + j)
    THEN [row |-> <<>>, rowIndexes |-> <<>>, sumInputs |-> start,
          currentIndex |-> currentIndex, err |-> Panic]
    ELSE [row |-> [j \in 1..n |-> p.publicKeys[currentIndex + j]],
          rowIndexes |-> [j \in 1..n |-> SetUint64(p.cmtIndices[currentIndex + j])],
          sumInputs |-> addPoints(start, [j \in 1..n |-> p.commitments[currentIndex + j]], n),
          currentIndex |-> currentIndex + n,
          err |-> ""]

(* Mutant: the row returned without its sum column. *)
ringRow_noSum(r) == r.row

(* Line 397: the sum point is the last column of the row. *)
ringRow(r) == Append(r.row, r.sumInputs)

(* The loop of lines 376-403 from row i on. *)
RECURSIVE ringRows(_, _, _, _, _, _, _, _, _)
ringRows(inputCoins, p, sumOutputsWithFee, pi, ringSize, i, currentIndex, acc, commitmentToZero) ==
    IF i >= ringSize
    THEN [ring |-> acc.ring, indices |-> acc.indices,
          commitmentToZero |-> commitmentToZero, err |-> ""]
    ELSE LET start == PointSub(Identity, sumOutputsWithFee)
             r == IF i = pi
                  THEN [realRow(inputCoins, p.myIndices, start)
                            EXCEPT !.currentIndex = currentIndex]
                  ELSE decoyRow(Len(inputCoins), p, currentIndex, start)
         IN  IF r.err # "" THEN ringFail(r.err)
             ELSE ringRows(inputCoins, p, sumOutputsWithFee, pi, ringSize, i + 1,
                           r.currentIndex,
                           [ring |-> Append(acc.ring, ringRow(r)),
                            indices |-> Append(acc.indices, r.rowIndexes)],
                           IF i = pi THEN r.sumInputs ELSE commitmentToZero)

generateMLSAGRingWithIndexes(inputCoins, outputCoins, params, pi, ringSize) ==
    LET lenInput == Len(inputCoins)
        p == ParseParamsForRing(params.Kvargs, lenInput, ringSize)
    IN  IF p.err # "" THEN ringFail(p.err)
        ELSE ringRows(inputCoins, p,
                      CalculateSumOutputsWithFee(outputCoins, params.Fee),
                      pi, ringSize, 0, 0,
                      [ring |-> <<>>, indices |-> <<>>], NilPoint)

-----------------------------------------------------------------------------
(* createPrivKeyMlsag *)

ErrMismatch == "Error : asset tag sum or commitment sum mismatch"

RECURSIVE sumRandomness(_, _)
sumRandomness(coins, k) ==
    IF k = 0 THEN 0 ELSE sumRandomness(coins, k - 1) + GetRandomness(coins[k])

(* Lines 121-127: the first input whose key cannot be parsed ends the call. *)
RECURSIVE parseKeys(_, _)
parseKeys(inputCoins, k) ==
    IF k = 0 THEN [keys |-> <<>>, err |-> ""]
    ELSE LET before == parseKeys(inputCoins, k - 1)
             this == ParsePrivateKeyOfCoin(inputCoins[k])
         IN  IF before.err # "" THEN before
             ELSE IF this.err # "" THEN [keys |-> <<>>, err |-> this.err]
             ELSE [keys |-> Append(before.keys, this.key), err |-> ""]

(* Mutant: the recomputed commitment to zero is not compared. *)
createPrivKeyMlsag_noMatch(inputCoins, outputCoins, commitmentToZero) ==
    LET sumRand == sumRandomness(inputCoins, Len(inputCoins))
                     - sumRandomness(outputCoins, Len(outputCoins))
        parsed == parseKeys(inputCoins, Len(inputCoins))
    IN  IF parsed.err # "" THEN [privKeyMlsag |-> <<>>, err |-> parsed.err]
        ELSE [privKeyMlsag |-> Append(parsed.keys, sumRand), err |-> ""]

createPrivKeyMlsag(inputCoins, outputCoins, commitmentToZero) ==
    LET sumRand == sumRandomness(inputCoins, Len(inputCoins))
                     - sumRandomness(outputCoins, Len(outputCoins))
        parsed == parseKeys(inputCoins, Len(inputCoins))
        commitmentToZeroRecomputed == ScalarMult(PedComGRandomness, sumRand)
        match == IsPointEqual(commitmentToZeroRecomputed, commitmentToZero)
    IN  IF parsed.err # "" THEN [privKeyMlsag |-> <<>>, err |-> parsed.err]
        ELSE IF ~match THEN [privKeyMlsag |-> <<>>, err |-> ErrMismatch]
        ELSE [privKeyMlsag |-> Append(parsed.keys, sumRand), err |-> ""]

-----------------------------------------------------------------------------
(* Inputs of the ring builder runs. *)

(* Input coin j: amount j + 1, its own randomness, key and public key.     *)
InputCoin(j, keyErr) ==
    [publicKey |-> Point(10 + j, 0, 0),
     amount |-> j + 1,
     randomness |-> 20 + j,
     commitment |-> Commit(j + 1, 20 + j),
     privKey |-> 10 + j,
     keyErr |-> keyErr]

OutputCoin(j, amount) ==
    [publicKey |-> Point(30 + j, 0, 0),
     amount |-> amount,
     randomness |-> 40 + j,
     commitment |-> Commit(amount, 40 + j)]

(* Input coins 1..n; the coin badKey (0: none) cannot be opened. *)
InputCoins(n, badKey) == [j \in 1..n |-> InputCoin(j, j = badKey)]

OutputCoinLists ==
    UNION {{[j \in 1..k |-> OutputCoin(j, a[j])] : a \in [1..k -> 0..MaxAmount]}
             : k \in 0..MaxOutputs}

(* Entry k (0-based) of the flat decoy lists, each value its own. *)
DecoyIndices(len) == [k \in 1..len |-> 100 + k]
DecoyCommitments(len) == [k \in 1..len |-> Commit(50 + k, 60 + k)]
DecoyPublicKeys(len) == [k \in 1..len |-> Point(200 + k, 0, 0)]
DecoyAssetTags(len) == [k \in 1..len |-> Point(0, 300 + k, 0)]
MyIndices(len) == [j \in 1..len |-> 80 + j]

kvEntry(type, list) == [type |-> type, list |-> list]

(* Kvargs with the given list lengths, every key present and well typed. *)
KvArgs(nIdx, nCmt, nPk, nTag, nMy) ==
    [isNil |-> FALSE,
     m |-> [key \in KvKeys |->
              CASE key = KeyCommitmentIndices -> kvEntry(TUint64s, DecoyIndices(nIdx))
                [] key = KeyCommitments -> kvEntry(TPoints, DecoyCommitments(nCmt))
                [] key = KeyPublicKeys -> kvEntry(TPoints, DecoyPublicKeys(nPk))
                [] key = KeyAssetTags -> kvEntry(TPoints, DecoyAssetTags(nTag))
                [] key = KeyMyIndices -> kvEntry(TUint64s, MyIndices(nMy))]]

KvNil == [isNil |-> TRUE, m |-> <<>>]
kvWithout(kv, key) == [kv EXCEPT !.m = [k \in (DOMAIN kv.m) \ {key} |-> kv.m[k]]]
kvMistyped(kv, key) == [kv EXCEPT !.m[key].type = TOther]

Near(x) == {y \in {x - 1, x, x + 1} : y >= 0}

(* Kvargs that pass validation for n inputs and ring size R: the decoy     *)
(* lists exact or one longer, the asset tags of any length.                *)
ValidKvArgs(n, R) ==
    LET need == n * (R - 1)
    IN  {KvArgs(need, need, need, need, n), KvArgs(need + 1, need + 1, need + 1, 0, n),
         KvArgs(need, need + 1, need, need - 1, n)}

(* Kvargs around the validation boundaries: one list length off by one,    *)
(* one key missing or of another type, or no map at all.                   *)
BoundaryKvArgs(n, R) ==
    LET need == n * (R - 1)
        good == KvArgs(need, need, need, need, n)
    IN  {KvArgs(a, need, need, need, n) : a \in Near(need)}
        \cup {KvArgs(need, a, need, need, n) : a \in Near(need)}
        \cup {KvArgs(need, need, a, need, n) : a \in Near(need)}
        \cup {KvArgs(need, need, need, a, n) : a \in Near(need) \cup {0}}
        \cup {KvArgs(need, need, need, need, a) : a \in Near(n)}
        \cup {kvWithout(good, key) : key \in KvKeys}
        \cup {kvMistyped(good, key) : key \in KvKeys}
        \cup {KvNil}

RingShapes ==
    {[n |-> n, R |-> R, pi |-> pi] :
        n \in 1..MaxInputs, R \in 2..MaxRing, pi \in 0..(MaxRing - 1)}

ringArgs(shape, badKey, outputCoins, fee, kv) ==
    [inputCoins |-> InputCoins(shape.n, badKey),
     outputCoins |-> outputCoins,
     params |-> [Kvargs |-> kv, Fee |-> fee],
     pi |-> shape.pi,
     ringSize |-> shape.R]

UsedShapes == {sh \in RingShapes : sh.pi < sh.R}

(* A balanced single output for n inputs and no fee. *)
BalancedOutput(n) == <<OutputCoin(1, SumRange([j \in 1..n |-> j + 1], 1, n))>>

(* A single output whose amount and randomness are the sums of the       *)
(* inputs': the commitment sums of inputs and outputs are then equal.      *)
MatchingOutput(n) ==
    LET amount == SumRange([j \in 1..n |-> j + 1], 1, n)
        randomness == SumRange([j \in 1..n |-> 20 + j], 1, n)
    IN  << [publicKey |-> Point(31, 0, 0), amount |-> amount,
            randomness |-> randomness, commitment |-> Commit(amount, randomness)] >>

(* Every output list and fee with exactly the decoys needed; and a         *)
(* balanced transaction, with different or equal commitment sums, with     *)
(* every Kvargs.                                                           *)
RingInputsOf(sh) ==
    LET need == sh.n * (sh.R - 1)
    IN  {ringArgs(sh, badKey, out, fee, KvArgs(need, need, need, need, sh.n)) :
            badKey \in 0..1, out \in OutputCoinLists, fee \in 0..MaxFee}
        \cup {ringArgs(sh, 0, BalancedOutput(sh.n), 0, kv) :
                kv \in ValidKvArgs(sh.n, sh.R) \cup BoundaryKvArgs(sh.n, sh.R)}
        \cup {ringArgs(sh, badKey, MatchingOutput(sh.n), 0, kv) :
                badKey \in 0..1,
                kv \in ValidKvArgs(sh.n, sh.R) \cup BoundaryKvArgs(sh.n, sh.R)}

-----------------------------------------------------------------------------
(* The ring state machine: the ring builder, then the secret key deriver.  *)

RingInit ==
    /\ CodecIdle
    /\ TxIdle
    /\ OtaIdle
    /\ CacheIdle
    /\ \E sh \in UsedShapes : rArgs \in RingInputsOf(sh)
    /\ rRing = <<>>
    /\ rKeys = <<>>
    /\ rPc = "args"

(* ring, indexes, commitmentToZero, err := generateMLSAGRingWithIndexes(...) *)
CallGenerateRing ==
    /\ rPc = "args"
    /\ rRing' = generateMLSAGRingWithIndexes(rArgs.inputCoins, rArgs.outputCoins,
                                             rArgs.params, rArgs.pi, rArgs.ringSize)
    /\ rPc' = "ring"
    /\ UNCHANGED <<rArgs, rKeys>>
    /\ UNCHANGED codecVars
    /\ UNCHANGED txVars
    /\ UNCHANGED otaVars
    /\ UNCHANGED cacheVars

(* privKeysMlsag, err := createPrivKeyMlsag(inp, out, senderSK, commitmentToZero) *)
CallCreatePrivKey ==
    /\ rPc = "ring"
    /\ rRing.err = ""
    /\ rKeys' = createPrivKeyMlsag(rArgs.inputCoins, rArgs.outputCoins,
                                   rRing.commitmentToZero)
    /\ rPc' = "keys"
    /\ UNCHANGED <<rArgs, rRing>>
    /\ UNCHANGED codecVars
    /\ UNCHANGED txVars
    /\ UNCHANGED otaVars
    /\ UNCHANGED cacheVars

RingNext == CallGenerateRing \/ CallCreatePrivKey

SpecRing == RingInit /\ [][RingNext]_vars

-----------------------------------------------------------------------------
(* tx_generic.TxBase, embedded in Tx: the serialized fields Version, Type, *)
(* LockTime, Fee, Info, SigPubKey, Sig, Proof, PubKeyLastByteSender and    *)
(* Metadata, and the private key, which is not serialized.                 *)

(* A Go byte slice: nil, or its elements (an empty slice is not nil). *)
NilBytes == [isNil |-> TRUE, b |-> <<>>]
SomeBytes(b) == [isNil |-> FALSE, b |-> b]
EmptyBytes == SomeBytes(<<>>)

NilProof == [isNil |-> TRUE, inputCoins |-> <<>>, outputCoins |-> <<>>, size |-> 0]
NilMetadata == [isNil |-> TRUE, stable |-> TRUE, signed |-> FALSE, rev |-> 0, size |-> 0]

TxNormalType == "n"
TxRewardType == "s"

(* new(Tx) *)
NewTx ==
    [Version |-> 0, Type |-> "", LockTime |-> 0, Fee |-> 0, Info |-> NilBytes,
     SigPubKey |-> NilBytes, Sig |-> NilBytes, Proof |-> NilProof,
     PubKeyLastByteSender |-> 0, Metadata |-> NilMetadata,
     sigPrivKey |-> NilBytes]

(* json.Marshal of a []byte: null for nil, else the base64 string. *)
jsonBytes(x) == IF x.isNil THEN [null |-> TRUE, base64 |-> <<>>]
                ELSE [null |-> FALSE, base64 |-> x.b]
(* json.Unmarshal into a []byte. *)
bytesOfJson(j) == IF j.null THEN NilBytes ELSE SomeBytes(j.base64)

(* The JSON form of a metadata and what parsing it gives: a metadata whose *)
(* serialized form is not stable comes back in another form.               *)
jsonMetadata(md) == md
metadataOfJson(j) ==
    IF j.isNil \/ j.stable THEN j ELSE [j EXCEPT !.rev = @ + 1]

(* json.Marshal(tx): the exported fields in declaration order; the private *)
(* key is not part of it.                                                  *)
jsonMarshal(t) ==
    [Version |-> t.Version, Type |-> t.Type, LockTime |-> t.LockTime,
     Fee |-> t.Fee, Info |-> jsonBytes(t.Info),
     SigPubKey |-> jsonBytes(t.SigPubKey), Sig |-> jsonBytes(t.Sig),
     Proof |-> t.Proof, PubKeyLastByteSender |-> t.PubKeyLastByteSender,
     Metadata |-> jsonMetadata(t.Metadata)]

(* json.Unmarshal(jsb, &tx1) into a new(Tx). *)
jsonUnmarshal(j) ==
    [Version |-> j.Version, Type |-> j.Type, LockTime |-> j.LockTime,
     Fee |-> j.Fee, Info |-> bytesOfJson(j.Info),
     SigPubKey |-> bytesOfJson(j.SigPubKey), Sig |-> bytesOfJson(j.Sig),
     Proof |-> j.Proof, PubKeyLastByteSender |-> j.PubKeyLastByteSender,
     Metadata |-> metadataOfJson(j.Metadata),
     sigPrivKey |-> NilBytes]

(* len(jsb): the bytes of the proof, of the byte fields, of the metadata   *)
(* and of the rest.                                                        *)
jsonLen(j) ==
    j.Proof.size + Len(j.Info.base64) + Len(j.SigPubKey.base64) + Len(j.Sig.base64)
        + j.Metadata.size + 1

(* common.HashH: a collision-free hash, written as the bytes it hashes. *)
HashH(inBytes) == [hashOf |-> inBytes]

(* Mutant: the signature's public key is left in the hashed serialization. *)
Hash_keepsSigPubKey(t) ==
    HashH(jsonMarshal([t EXCEPT !.Sig = EmptyBytes]))

(* Tx.Hash: the receiver is a copy, whose Sig and SigPubKey are set to     *)
(* empty slices before it is serialized and hashed.                        *)
Hash(t) ==
    HashH(jsonMarshal([t EXCEPT !.Sig = EmptyBytes, !.SigPubKey = EmptyBytes]))

(* Tx.GetTxActualSize *)
GetTxActualSize(t) == (jsonLen(jsonMarshal(t)) + Kb - 1) \div Kb

-----------------------------------------------------------------------------
(* Tx.signOnMessage *)

ErrSigned == "input transaction must be an unsigned one"
ErrRand == "RandBigIntMaxRange error"
ErrScalars == "ArrayScalarToBytes error"
ErrSign == "mlsag Sign error"
ErrSigBytes == "mlsag signature ToBytes error"

(* The bytes of the MLSAG signature of a message under a ring; the key     *)
(* images are removed before (line 237).                                   *)
MlsagSigBytes(ring, hashedMessage) ==
    SomeBytes(<<[scheme |-> "mlsag", ring |-> ring, msg |-> hashedMessage]>>)

(* privacy.ArrayScalarToBytes(&privKeysMlsag) *)
ArrayScalarToBytes(scalars) == SomeBytes(<<[scalars |-> scalars]>>)

(* What signOnMessage does from line 193 on. *)
signUnsigned(t, inp, out, params, hashedMessage, pi) ==
    IF params.fault = "rand" THEN [tx |-> t, err |-> ErrRand]
    ELSE
    LET ringSize == params.ringSize
        g == generateMLSAGRingWithIndexes(inp, out, params, pi, ringSize)
    IN  IF g.err # "" THEN [tx |-> t, err |-> g.err]
        ELSE
        LET enc == Bytes(g.indices)
            t1 == [t EXCEPT !.SigPubKey = IF enc.err = "" THEN SomeBytes(enc.b) ELSE NilBytes]
        IN  IF enc.err # "" THEN [tx |-> t1, err |-> enc.err]
            ELSE
            LET k == createPrivKeyMlsag(inp, out, g.commitmentToZero)
            IN  IF k.err # "" THEN [tx |-> t1, err |-> k.err]
                ELSE IF params.fault = "scalars" THEN [tx |-> t1, err |-> ErrScalars]
                ELSE
                LET t2 == [t1 EXCEPT !.sigPrivKey = ArrayScalarToBytes(k.privKeyMlsag)]
                IN  IF params.fault = "sign" THEN [tx |-> t2, err |-> ErrSign]
                    ELSE IF params.fault = "sigbytes"
                    THEN [tx |-> [t2 EXCEPT !.Sig = NilBytes], err |-> ErrSigBytes]
                    ELSE [tx |-> [t2 EXCEPT !.Sig = MlsagSigBytes(g.ring, hashedMessage)],
                          err |-> ""]

(* Mutant: a transaction that holds a signature is signed again. *)
signOnMessage_resigns(t, inp, out, params, hashedMessage, pi) ==
    signUnsigned(t, inp, out, params, hashedMessage, pi)

(* Lines 190-192, then the rest. *)
signOnMessage(t, inp, out, params, hashedMessage, pi) ==
    IF ~t.Sig.isNil THEN [tx |-> t, err |-> ErrSigned]
    ELSE signUnsigned(t, inp, out, params, hashedMessage, pi)

-----------------------------------------------------------------------------
(* Tx.prove *)

ErrNewCoin == "NewCoinFromPaymentInfo error"
ErrProve == "ProveV2 error"
ErrMetadataSign == "metadata Sign error"

(* privacy.ProveV2(inputCoins, outputCoins, nil, false, paymentInfo) *)
ProveV2(inputCoins, outputCoins, size) ==
    [isNil |-> FALSE,
     inputCoins |-> [j \in 1..Len(inputCoins) |-> GetPublicKey(inputCoins[j])],
     outputCoins |-> [j \in 1..Len(outputCoins) |->
                        [publicKey |-> GetPublicKey(outputCoins[j]),
                         commitment |-> GetCommitment(outputCoins[j])]],
     size |-> size]

(* tx.GetMetadata().Sign(params.SenderSK, tx): the metadata signs itself. *)
metadataSign(md) == [md EXCEPT !.signed = TRUE]

(* The hashedMessage of line 269, when prove gets that far. *)
proveMessage(t, params) ==
    LET t1 == [t EXCEPT !.Proof = ProveV2(params.InputCoins, params.outputCoins, params.proofSize)]
        t2 == IF t1.Metadata.isNil THEN t1
              ELSE [t1 EXCEPT !.Metadata = metadataSign(@)]
    IN  Hash(t2)

(* Mutant: the hash is taken before the metadata signs itself. *)
prove_hashBeforeMetadataSign(t, params, pi) ==
    IF params.fault = "newcoin" THEN [tx |-> t, err |-> ErrNewCoin]
    ELSE IF params.fault = "prove"
    THEN [tx |-> [t EXCEPT !.Proof = NilProof], err |-> ErrProve]
    ELSE
    LET t1 == [t EXCEPT !.Proof = ProveV2(params.InputCoins, params.outputCoins, params.proofSize)]
    IN  IF ~t1.Metadata.isNil /\ params.fault = "mdsign"
        THEN [tx |-> t1, err |-> ErrMetadataSign]
        ELSE
        LET t2 == IF t1.Metadata.isNil THEN t1
                  ELSE [t1 EXCEPT !.Metadata = metadataSign(@)]
        IN  signOnMessage(t2, params.InputCoins, params.outputCoins, params, Hash(t1), pi)

prove(t, params, pi) ==
    IF params.fault = "newcoin" THEN [tx |-> t, err |-> ErrNewCoin]
    ELSE IF params.fault = "prove"
    THEN [tx |-> [t EXCEPT !.Proof = NilProof], err |-> ErrProve]
    ELSE
    LET t1 == [t EXCEPT !.Proof = ProveV2(params.InputCoins, params.outputCoins, params.proofSize)]
    IN  IF ~t1.Metadata.isNil /\ params.fault = "mdsign"
        THEN [tx |-> t1, err |-> ErrMetadataSign]
        ELSE
        LET t2 == IF t1.Metadata.isNil THEN t1
                  ELSE [t1 EXCEPT !.Metadata = metadataSign(@)]
        IN  signOnMessage(t2, params.InputCoins, params.outputCoins, params, Hash(t2), pi)

-----------------------------------------------------------------------------
(* Tx.Init *)

ErrParamsType == "params of tx Init is not TxPrivacyInitParam"
ErrValidate == "ValidateTxParams error"
ErrInitialize == "InitializeTxAndParams error"
ErrSignNoPrivacy == "SignNoPrivacy error"
ErrMarshal == "marshal tx error"
ErrUnmarshal == "unmarshal tx error"
ErrHashChanged == "txHash changes after unmarshalling"
ErrExceedSize == "ExceedSizeTx"

(* tx.InitializeTxAndParams(params): the basic fields of the transaction   *)
(* are set from the parameters.                                            *)
InitializeTxAndParams(t, params) ==
    LET t1 == [t EXCEPT !.sigPrivKey = SomeBytes(<<[key |-> params.SenderSK]>>),
                        !.LockTime = IF @ = 0 THEN params.now ELSE @,
                        !.Fee = params.Fee,
                        !.Type = TxNormalType,
                        !.Metadata = params.MetaData,
                        !.PubKeyLastByteSender = params.shardID]
    IN  IF params.fault = "initialize" THEN [tx |-> t1, err |-> ErrInitialize]
        ELSE [tx |-> [t1 EXCEPT !.Version = TxVersion2Number,
                                !.Info = params.Info],
              err |-> ""]

(* tx_generic.SignNoPrivacy(privateKey, hashedMessage) *)
SignNoPrivacy(privateKey, hashedMessage) ==
    [Sig |-> SomeBytes(<<[scheme |-> "schnorr", key |-> privateKey, msg |-> hashedMessage]>>),
     SigPubKey |-> SomeBytes(<<[publicKeyOf |-> privateKey]>>)]

(* tx.IsNonPrivacyNonInput(params): a transaction without inputs, fee and  *)
(* privacy is signed without a ring, and Init returns what this returned.  *)
IsNonPrivacyNonInput(t, params) ==
    IF Len(params.InputCoins) = 0 /\ params.Fee = 0 /\ ~params.HasPrivacy
    THEN LET t1 == [t EXCEPT !.sigPrivKey = SomeBytes(<<[key |-> params.SenderSK]>>)]
             s == SignNoPrivacy(params.SenderSK, Hash(t1))
         IN  IF params.fault = "signnoprivacy"
             THEN [check |-> TRUE, tx |-> t1, err |-> ErrSignNoPrivacy]
             ELSE [check |-> TRUE,
                   tx |-> [t1 EXCEPT !.Sig = s.Sig, !.SigPubKey = s.SigPubKey],
                   err |-> ""]
    ELSE [check |-> FALSE, tx |-> t, err |-> ""]

(* Lines 163-186: the transaction is serialized and parsed again, the hash *)
(* of the copy compared with its own, and the size checked.                *)
selfCheck(t, params) ==
    IF params.fault = "marshal" THEN ErrMarshal
    ELSE IF params.fault = "unmarshal" THEN ErrUnmarshal
    ELSE LET jsb == jsonMarshal(t)
             tx1 == jsonUnmarshal(jsb)
         IN  IF Hash(tx1) # Hash(t) THEN ErrHashChanged
             ELSE IF GetTxActualSize(t) > MaxTxSize THEN ErrExceedSize
             ELSE ""

Init(t, params, pi) ==
    IF ~params.isInitParams THEN [tx |-> t, err |-> ErrParamsType]
    ELSE IF params.fault = "validate" THEN [tx |-> t, err |-> ErrValidate]
    ELSE
    LET i == InitializeTxAndParams(t, params)
    IN  IF i.err # "" THEN i
        ELSE
        LET np == IsNonPrivacyNonInput(i.tx, params)
        IN  IF np.check THEN [tx |-> np.tx, err |-> np.err]
            ELSE
            LET pr == prove(i.tx, params, pi)
            IN  IF pr.err # "" THEN pr
                ELSE [tx |-> pr.tx, err |-> selfCheck(pr.tx, params)]

(* Whether Init with these parameters reaches line 269 of prove. *)
reachesSign(t, params) ==
    /\ params.isInitParams
    /\ params.fault \notin {"validate", "initialize", "newcoin", "prove"}
    /\ ~IsNonPrivacyNonInput(t, params).check
    /\ ~(params.fault = "mdsign" /\ ~params.MetaData.isNil)

(* The receiver of signOnMessage at line 269, when Init gets that far: the *)
(* proof is attached and the metadata has signed itself.                   *)
signReceiver(t, params) ==
    LET i == InitializeTxAndParams(t, params).tx
        t1 == [i EXCEPT !.Proof = ProveV2(params.InputCoins, params.outputCoins, params.proofSize)]
    IN  IF t1.Metadata.isNil THEN t1
        ELSE [t1 EXCEPT !.Metadata = metadataSign(@)]

(* The calls of signOnMessage made by a call of Init on t that left the    *)
(* object as after and returned err: none, or the one of line 269.  Init   *)
(* returns the error of prove, which is that of signOnMessage, at once     *)
(* (160-162); the errors of lines 163-184 come after a nil error of it,    *)
(* and nothing writes to the object after signOnMessage has returned.      *)
signCalls(t, params, after, err) ==
    IF ~reachesSign(t, params) THEN <<>>
    ELSE LET in == signReceiver(t, params)
         IN  <<[in |-> in, msg |-> Hash(in), out |-> after,
                err |-> IF err \in {ErrMarshal, ErrUnmarshal, ErrHashChanged, ErrExceedSize}
                        THEN "" ELSE err]>>

-----------------------------------------------------------------------------
(* Tx.InitTxSalary *)

(* common.GetShardIDFromLastByte(publicKeyBytes[len(publicKeyBytes)-1]) *)
GetShardIDFromLastByte(publicKey) == (publicKey.sk % 256) % 8

(* proof.Init(); proof.SetOutputCoins([]coin.Coin{otaCoin}) *)
SalaryProof(otaCoin) ==
    [isNil |-> FALSE, inputCoins |-> <<>>,
     outputCoins |-> <<[publicKey |-> GetPublicKey(otaCoin),
                        commitment |-> GetCommitment(otaCoin)]>>,
     size |-> Kb]

(* Lines 415-432: the fields set before the transaction is signed. *)
salaryFields(t, params) ==
    [t EXCEPT !.Version = TxVersion2Number,
              !.Type = TxRewardType,
              !.LockTime = IF @ = 0 THEN params.now ELSE @,
              !.Proof = SalaryProof(params.otaCoin),
              !.PubKeyLastByteSender = GetShardIDFromLastByte(GetPublicKey(params.otaCoin)),
              !.sigPrivKey = SomeBytes(<<[key |-> params.privateKey]>>),
              !.Metadata = params.MetaData]

(* Mutant: the transaction is signed before its metadata is attached. *)
salaryMessage_beforeMetadata(t, params) ==
    Hash([salaryFields(t, params) EXCEPT !.Metadata = t.Metadata])

(* tx.Hash()[:] of line 435 *)
salaryMessage(t, params) == Hash(salaryFields(t, params))

InitTxSalary(t, params) ==
    LET t1 == salaryFields(t, params)
        s == SignNoPrivacy(params.privateKey, salaryMessage(t, params))
    IN  IF params.fault = "signnoprivacy"
        THEN [tx |-> [t1 EXCEPT !.Sig = NilBytes, !.SigPubKey = NilBytes],
              err |-> ErrSignNoPrivacy]
        ELSE [tx |-> [t1 EXCEPT !.Sig = s.Sig, !.SigPubKey = s.SigPubKey], err |-> ""]

-----------------------------------------------------------------------------
(* Tx.Hash and Tx.HashWithoutMetadataSig as calls on a transaction object. *)

(* Mutant: the methods have a pointer receiver. *)
afterPointerReceiver(callers, callees) == callees

(* What the caller's object holds after a method with the value receiver   *)
(* "func (tx Tx)" returns: the method worked on its own copy.              *)
afterValueReceiver(callers, callees) == callers

(* md.HashWithoutSig() *)
HashWithoutSig(md) == HashH([metadataWithoutSig |-> [md EXCEPT !.signed = FALSE]])

(* The result of a call that did not return. *)
NoHash == [panic |-> Panic]

(* Tx.Hash: the hash, and the receiver as the method leaves it. *)
HashCall(t) ==
    [hash |-> Hash(t),
     self |-> [t EXCEPT !.Sig = EmptyBytes, !.SigPubKey = EmptyBytes]]

(* Tx.HashWithoutMetadataSig: md.HashWithoutSig() on a nil metadata is a   *)
(* nil dereference.                                                        *)
HashWithoutMetadataSigCall(t) ==
    IF t.Metadata.isNil THEN [hash |-> NoHash, self |-> t]
    ELSE LET self == [t EXCEPT !.Metadata = NilMetadata]
         IN  [hash |-> HashH(<<HashWithoutSig(t.Metadata), Hash(self)>>),
              self |-> self]

-----------------------------------------------------------------------------
(* Inputs of the transaction runs. *)

Faults ==
    {"none", "validate", "initialize", "signnoprivacy", "newcoin", "prove",
     "mdsign", "rand", "scalars", "sign", "sigbytes", "marshal", "unmarshal"}

MetadataValues ==
    {NilMetadata,
     [isNil |-> FALSE, stable |-> TRUE, signed |-> FALSE, rev |-> 0, size |-> 1],
     [isNil |-> FALSE, stable |-> FALSE, signed |-> FALSE, rev |-> 0, size |-> 1],
     [isNil |-> FALSE, stable |-> TRUE, signed |-> FALSE, rev |-> 0,
      size |-> MaxTxSize * Kb + 1]}

(* The object Init is called on: a new one, one with a lock time, or one   *)
(* that holds a signature already.                                         *)
TxObjects ==
    {NewTx,
     [NewTx EXCEPT !.LockTime = 7],
     [NewTx EXCEPT !.Sig = SomeBytes(<<[scheme |-> "old"]>>),
                   !.SigPubKey = SomeBytes(<<9>>)]}

ProofSizes ==
    {Kb, MaxTxSize * Kb - 8, MaxTxSize * Kb - 6, MaxTxSize * Kb - 5, MaxTxSize * Kb + 1}

(* The coins, fee and decoys of a transaction of n inputs and ring size R. *)
CoinCases(n, R) ==
    LET need == n * (R - 1)
        exact == KvArgs(need, need, need, need, n)
        c(badKey, out, fee, kv) ==
            [InputCoins |-> InputCoins(n, badKey), outputCoins |-> out,
             Fee |-> fee, Kvargs |-> kv]
    IN  (IF n = 0 THEN {c(0, <<>>, 0, exact), c(0, <<OutputCoin(1, 1)>>, 0, exact)}
         ELSE {c(0, MatchingOutput(n), 0, exact),
               c(0, <<OutputCoin(1, SumRange([j \in 1..n |-> j + 1], 1, n) - 1)>>, 1, exact),
               c(0, BalancedOutput(n), 1, exact),
               c(1, BalancedOutput(n), 0, exact),
               c(0, BalancedOutput(n), 0, KvArgs(need, need - 1, need, need, n)),
               c(0, BalancedOutput(n), 0, kvWithout(exact, KeyAssetTags))})

txArgs(cc, R, fault, md, hasPrivacy, size, ok) ==
    [isInitParams |-> ok, fault |-> fault, HasPrivacy |-> hasPrivacy,
     SenderSK |-> "senderSK", shardID |-> 1, now |-> 1600000000,
     Info |-> SomeBytes(<<1, 2>>), MetaData |-> md,
     InputCoins |-> cc.InputCoins, outputCoins |-> cc.outputCoins,
     Fee |-> cc.Fee, Kvargs |-> cc.Kvargs, ringSize |-> R, proofSize |-> size]

TxInputsOf(n, R) ==
    LET first == CHOOSE cc \in CoinCases(n, R) :
                    cc.Fee = 0 /\ cc.Kvargs = KvArgs(n * (R - 1), n * (R - 1), n * (R - 1), n * (R - 1), n)
                    /\ (n = 0 => cc.outputCoins = <<>>)
                    /\ (n > 0 => cc.outputCoins = MatchingOutput(n))
    IN  {txArgs(cc, R, "none", md, hp, Kb, TRUE) :
            cc \in CoinCases(n, R), md \in MetadataValues, hp \in BOOLEAN}
        \cup {txArgs(first, R, fault, md, hp, Kb, TRUE) :
                fault \in Faults, md \in MetadataValues, hp \in BOOLEAN}
        \cup {txArgs(first, R, "none", md, hp, size, ok) :
                md \in MetadataValues, hp \in BOOLEAN, size \in ProofSizes, ok \in BOOLEAN}

-----------------------------------------------------------------------------
(* The transaction state machine: Init is called on an object, and may be  *)
(* called on it once more; InitTxSalary is called once on an object.       *)

TxInit ==
    /\ CodecIdle
    /\ RingIdle
    /\ OtaIdle
    /\ CacheIdle
    /\ tx \in TxObjects
    /\ \E n \in 0..MaxInputs, R \in 2..MaxRing : txParams \in TxInputsOf(n, R)
    /\ txErr = ""
    /\ txMsg = <<>>
    /\ txPc = "new"
    /\ tx0 = tx
    /\ hLog = <<>>
    /\ sLog = <<>>

(* err := tx.Init(params), pi being what RandBigIntMaxRange(ringSize) gave *)
CallInit ==
    /\ txPc = "new"
    /\ \E pi \in 0..(txParams.ringSize - 1) :
          LET r == Init(tx, txParams, pi)
          IN  /\ tx' = r.tx
              /\ txErr' = r.err
              /\ txMsg' = IF reachesSign(tx, txParams)
                          THEN <<proveMessage(InitializeTxAndParams(tx, txParams).tx, txParams)>>
                          ELSE <<>>
    /\ sLog' = sLog \o signCalls(tx, txParams, tx', txErr')
    /\ txPc' = "done"
    /\ UNCHANGED <<txParams, tx0, hLog>>
    /\ UNCHANGED codecVars
    /\ UNCHANGED ringVars
    /\ UNCHANGED otaVars
    /\ UNCHANGED cacheVars

(* err := tx.Init(params) once more on the object the first call left,     *)
(* with the same parameters or with the external calls succeeding now.     *)
CallInitAgain ==
    /\ txPc = "done"
    /\ hLog = <<>>
    /\ \E p \in {txParams, [txParams EXCEPT !.fault = "none"]} :
       \E pi \in 0..(p.ringSize - 1) :
          LET r == Init(tx, p, pi)
          IN  /\ tx' = r.tx
              /\ txErr' = r.err
              /\ txParams' = p
    /\ sLog' = sLog \o signCalls(tx, txParams', tx', txErr')
    /\ txPc' = "again"
    /\ UNCHANGED <<txMsg, tx0, hLog>>
    /\ UNCHANGED codecVars
    /\ UNCHANGED ringVars
    /\ UNCHANGED otaVars
    /\ UNCHANGED cacheVars

(* Values of the arguments of InitTxSalary. *)
SalaryInputs ==
    {[otaCoin |-> OutputCoin(j, 2), privateKey |-> "privateKey", MetaData |-> md,
      now |-> 1600000000, fault |-> f] :
        j \in 1..2, md \in MetadataValues, f \in {"none", "signnoprivacy"}}

SalaryInit ==
    /\ CodecIdle
    /\ RingIdle
    /\ OtaIdle
    /\ CacheIdle
    /\ tx \in TxObjects
    /\ txParams \in SalaryInputs
    /\ txErr = ""
    /\ txMsg = <<>>
    /\ txPc = "newSalary"
    /\ tx0 = tx
    /\ hLog = <<>>
    /\ sLog = <<>>

(* err := tx.InitTxSalary(otaCoin, privateKey, metaData) *)
CallInitTxSalary ==
    /\ txPc = "newSalary"
    /\ LET r == InitTxSalary(tx, txParams)
       IN  /\ tx' = r.tx
           /\ txErr' = r.err
           /\ txMsg' = <<salaryMessage(tx, txParams)>>
    /\ txPc' = "salaryDone"
    /\ UNCHANGED <<txParams, tx0, hLog, sLog>>
    /\ UNCHANGED codecVars
    /\ UNCHANGED ringVars
    /\ UNCHANGED otaVars
    /\ UNCHANGED cacheVars

(* h := tx.Hash(), on the transaction a construction call returned *)
CallHash ==
    /\ txPc \in {"done", "salaryDone"}
    /\ Len(hLog) < 2
    /\ LET r == HashCall(tx)
       IN  /\ tx' = afterValueReceiver(tx, r.self)
           /\ hLog' = Append(hLog, [op |-> "Hash", hash |-> r.hash, before |-> tx])
    /\ UNCHANGED <<txParams, txErr, txMsg, txPc, tx0, sLog>>
    /\ UNCHANGED codecVars
    /\ UNCHANGED ringVars
    /\ UNCHANGED otaVars
    /\ UNCHANGED cacheVars

(* h := tx.HashWithoutMetadataSig() *)
CallHashWithoutMetadataSig ==
    /\ txPc \in {"done", "salaryDone"}
    /\ Len(hLog) < 2
    /\ LET r == HashWithoutMetadataSigCall(tx)
       IN  /\ tx' = afterValueReceiver(tx, r.self)
           /\ hLog' = Append(hLog, [op |-> "HashWithoutMetadataSig", hash |-> r.hash,
                                    before |-> tx])
    /\ UNCHANGED <<txParams, txErr, txMsg, txPc, tx0, sLog>>
    /\ UNCHANGED codecVars
    /\ UNCHANGED ringVars
    /\ UNCHANGED otaVars
    /\ UNCHANGED cacheVars

TxNext ==
    \/ CallInit
    \/ CallInitAgain
    \/ CallInitTxSalary
    \/ CallHash
    \/ CallHashWithoutMetadataSig

Spec == (TxInit \/ SalaryInit) /\ [][TxNext]_vars

-----------------------------------------------------------------------------
(* Tx.ListOTAHashH *)

(* Public keys of output coins (their bytes, ToBytesS), one of them the    *)
(* burning address.                                                        *)
OtaKeys == {1, 2, 3, 4}
BurnKey == 4

(* wallet.IsPublicKeyBurningAddress *)
IsPublicKeyBurningAddress(publicKey) == publicKey = BurnKey

(* common.Hash.String(): the hex form, whose order is not the order of     *)
(* the hashed bytes.                                                       *)
HashString(h) == (h.hashOf * 7) % 11

(* The hashes of the output coins that are not sent to the burning         *)
(* address, in the order of the coins (lines 495-502).                     *)
RECURSIVE otaHashes(_, _)
otaHashes(outputCoins, k) ==
    IF k = 0 THEN <<>>
    ELSE IF IsPublicKeyBurningAddress(outputCoins[k].publicKey)
         THEN otaHashes(outputCoins, k - 1)
         ELSE Append(otaHashes(outputCoins, k - 1), HashH(outputCoins[k].publicKey))

(* Insertion of h behind every element that is not greater. *)
insertStable(sorted, h) ==
    LET n == Cardinality({i \in 1..Len(sorted) : HashString(sorted[i]) <= HashString(h)})
    IN  SubSeq(sorted, 1, n) \o <<h>> \o SubSeq(sorted, n + 1, Len(sorted))

(* sort.SliceStable(result, less) with less comparing the String() forms *)
RECURSIVE SliceStable(_, _)
SliceStable(result, k) ==
    IF k = 0 THEN <<>> ELSE insertStable(SliceStable(result, k - 1), result[k])

(* Mutant: the hashes are returned in the order of the output coins. *)
ListOTAHashH_unsorted(proof) ==
    IF proof.isNil THEN <<>> ELSE otaHashes(proof.outputCoins, Len(proof.outputCoins))

(* Tx.ListOTAHashH, of a transaction with this Proof. *)
ListOTAHashH(proof) ==
    LET result == IF proof.isNil THEN <<>>
                  ELSE otaHashes(proof.outputCoins, Len(proof.outputCoins))
    IN  SliceStable(result, Len(result))

(* Values of tx.Proof: nil, or a proof with up to MaxOtaOutputs outputs. *)
OtaProofs ==
    {[isNil |-> TRUE, outputCoins |-> <<>>]}
    \cup UNION {{[isNil |-> FALSE, outputCoins |-> [j \in 1..n |-> [publicKey |-> f[j]]]] :
                    f \in [1..n -> OtaKeys]} : n \in 0..MaxOtaOutputs}

OtaInit ==
    /\ CodecIdle
    /\ RingIdle
    /\ TxIdle
    /\ CacheIdle
    /\ oProof \in OtaProofs
    /\ oResult = <<>>
    /\ oPc = "new"

(* result := tx.ListOTAHashH() *)
CallListOTAHashH ==
    /\ oPc = "new"
    /\ oResult' = ListOTAHashH(oProof)
    /\ oPc' = "done"
    /\ UNCHANGED oProof
    /\ UNCHANGED codecVars
    /\ UNCHANGED ringVars
    /\ UNCHANGED txVars
    /\ UNCHANGED cacheVars

OtaNext == CallListOTAHashH

SpecOTA == OtaInit /\ [][OtaNext]_vars

-----------------------------------------------------------------------------
(* key/committee.go: CommitteePublicKey and its base58 caches.             *)
(* A key is its IncPubKey bytes and its MiningPubKey map from scheme names *)
(* to bytes.                                                               *)

(* common.BlsConsensus, common.BridgeConsensus *)
BlsConsensus == "bls"
BridgeConsensus == "dsa"
SchemeNames == {BlsConsensus, BridgeConsensus}

(* The bytes of a scheme name, as string concatenation sees them. *)
stringBytes(schemeName) ==
    IF schemeName = BlsConsensus THEN <<98, 108, 115>> ELSE <<100, 115, 97>>

(* sort.Strings(keys) of the scheme names of a key *)
sortedSchemes(pubKey) ==
    LET has(name) == IF name \in DOMAIN pubKey.MiningPubKey THEN <<name>> ELSE <<>>
    IN  has(BlsConsensus) \o has(BridgeConsensus)

(* CommitteePublicKey.RawBytes: IncPubKey followed by the mining keys in   *)
(* the order of their sorted scheme names, without names or lengths.       *)
RECURSIVE appendMiningKeys(_, _, _)
appendMiningKeys(pubKey, keys, k) ==
    IF k = 0 THEN pubKey.IncPubKey
    ELSE appendMiningKeys(pubKey, keys, k - 1) \o pubKey.MiningPubKey[keys[k]]

RawBytes(pubKey) ==
    LET keys == sortedSchemes(pubKey) IN appendMiningKeys(pubKey, keys, Len(keys))

(* json.Marshal(pubKey): both fields, the map with its scheme names. *)
jsonOfKey(pubKey) ==
    [IncPubKey |-> pubKey.IncPubKey, MiningPubKey |-> pubKey.MiningPubKey]

(* base58.Base58Check{}.Encode(data, common.Base58Version): one string per *)
(* input, never the empty string.                                          *)
Base58Encode(data) == [base58 |-> data]
EmptyString == [empty |-> TRUE]

(* lru.Cache.Get and Add, on a cache that is a map from keys to values. *)
cacheHas(cache, key) == key \in DOMAIN cache
cacheAdd(cache, key, value) ==
    [x \in (DOMAIN cache) \cup {key} |-> IF x = key THEN value ELSE cache[x]]

(* CommitteePublicKey.ToBase58 on a non-nil receiver (lines 151-163) *)
ToBase58(pubKey, cache) ==
    LET key == RawBytes(pubKey)
    IN  IF cacheHas(cache, key) THEN [result |-> cache[key], cache |-> cache]
        ELSE LET encodeData == Base58Encode(jsonOfKey(pubKey))
             IN  [result |-> encodeData, cache |-> cacheAdd(cache, key, encodeData)]

(* CommitteePublicKey.GetMiningKeyBase58 *)
GetMiningKeyBase58(pubKey, schemeName, cache) ==
    LET key == stringBytes(schemeName) \o RawBytes(pubKey)
    IN  IF cacheHas(cache, key) THEN [result |-> cache[key], cache |-> cache]
        ELSE IF schemeName \notin DOMAIN pubKey.MiningPubKey
             THEN [result |-> EmptyString, cache |-> cache]
        ELSE LET encodeData == Base58Encode(pubKey.MiningPubKey[schemeName])
             IN  [result |-> encodeData, cache |-> cacheAdd(cache, key, encodeData)]

(* Values of CommitteePublicKey: one or two bytes of IncPubKey, and mining *)
(* keys of one or two bytes for none, one or both schemes.                 *)
MiningMaps ==
    UNION {[names -> {<<2>>, <<3>>, <<2, 3>>}] : names \in SUBSET SchemeNames}

CommitteeKeys ==
    {[IncPubKey |-> inc, MiningPubKey |-> m] : inc \in {<<1>>, <<1, 2>>}, m \in MiningMaps}

(* Both caches are empty when the program starts (lines 119-120). *)
CacheInit ==
    /\ CodecIdle
    /\ RingIdle
    /\ TxIdle
    /\ OtaIdle
    /\ kToBase58Cache = <<>>
    /\ kGetMiningKeyBase58Cache = <<>>
    /\ kLast = <<>>
    /\ kCalls = 0

(* s, err := pubKey.ToBase58() *)
CallToBase58 ==
    /\ kCalls < MaxCacheCalls
    /\ \E pubKey \in CommitteeKeys :
          LET r == ToBase58(pubKey, kToBase58Cache)
          IN  /\ kToBase58Cache' = r.cache
              /\ kLast' = [op |-> "ToBase58", pubKey |-> pubKey,
                           schemeName |-> "", result |-> r.result]
    /\ kCalls' = kCalls + 1
    /\ UNCHANGED kGetMiningKeyBase58Cache
    /\ UNCHANGED codecVars
    /\ UNCHANGED ringVars
    /\ UNCHANGED txVars
    /\ UNCHANGED otaVars

(* s := pubKey.GetMiningKeyBase58(schemeName) *)
CallGetMiningKeyBase58 ==
    /\ kCalls < MaxCacheCalls
    /\ \E pubKey \in CommitteeKeys, schemeName \in SchemeNames :
          LET r == GetMiningKeyBase58(pubKey, schemeName, kGetMiningKeyBase58Cache)
          IN  /\ kGetMiningKeyBase58Cache' = r.cache
              /\ kLast' = [op |-> "GetMiningKeyBase58", pubKey |-> pubKey,
                           schemeName |-> schemeName, result |-> r.result]
    /\ kCalls' = kCalls + 1
    /\ UNCHANGED kToBase58Cache
    /\ UNCHANGED codecVars
    /\ UNCHANGED ringVars
    /\ UNCHANGED txVars
    /\ UNCHANGED otaVars

CacheNext == CallToBase58 \/ CallGetMiningKeyBase58

SpecCache == CacheInit /\ [][CacheNext]_vars

-----------------------------------------------------------------------------
(* Properties of the codec, checked under SpecCodec. *)

(* The size constraints of an IndexMatrix: 1..255 rows, all of the width   *)
(* of row 0, at most 255 columns, every cell's magnitude at most 255 bytes *)
(* (a cell is a normalised word slice, one word per magnitude byte).       *)
ValidMatrix(M) ==
    /\ Len(M) >= 1
    /\ Len(M) <= MaxSizeByte
    /\ Len(M[1]) <= MaxSizeByte
    /\ \A i \in 1..Len(M) : Len(M[i]) = Len(M[1])
    /\ \A i \in 1..Len(M) : \A j \in 1..Len(M[i]) : Len(M[i][j]) <= MaxSizeByte

EncodedFromMatrix == cHist = <<"Bytes">> /\ cBuf0 = <<>>
RoundTripped == cHist = <<"Bytes", "SetBytes">>
DecodedFromBytes == cHist = <<"SetBytes">> /\ cIdx0 = <<>>

(* C1: round trip.  For every matrix within the size constraints Bytes     *)
(* succeeds, SetBytes on its output succeeds, and the decoded matrix       *)
(* equals the original cell by cell, zero cells included.                  *)
C1_RoundTrip ==
    /\ (EncodedFromMatrix /\ cIdx0 # <<>> /\ ValidMatrix(cIdx0)) => cErr = ""
    /\ (RoundTripped /\ ValidMatrix(cIdx0)) =>
          /\ cErr = ""
          /\ Len(cIdx) = Len(cIdx0)
          /\ \A i \in 1..Len(cIdx0) :
                /\ Len(cIdx[i]) = Len(cIdx0[i])
                /\ \A j \in 1..Len(cIdx0[i]) : cIdx[i][j] = cIdx0[i][j]

C1_Witness ==
    /\ RoundTripped
    /\ cErr = ""
    /\ Len(cIdx0) = 2
    /\ Len(cIdx0[1]) = 2
    /\ cIdx0[2][2] = SetUint64(0)
    /\ cIdx0[1][2] = SetUint64(256)
    /\ cIdx = cIdx0

(* C2: wire layout.  On success the output is the byte n, the byte m,      *)
(* then for the n*m cells in row-major order one byte L and the L bytes of *)
(* the cell's magnitude, most significant byte first, with no sign byte    *)
(* and no leading zero byte; the length is 2 + the sum of (1 + L).         *)
C2_Layout ==
    (EncodedFromMatrix /\ cErr = "" /\ cIdx0 # <<>>) =>
        LET n == Len(cIdx0)
            m == Len(cIdx0[1])
            cell(k) == cIdx0[((k - 1) \div m) + 1][((k - 1) % m) + 1]
            size == [k \in 1..(n * m) |-> 1 + Len(cell(k))]
            start(k) == 2 + SumRange(size, 1, k - 1)
        IN  /\ Len(cBuf) = 2 + SumRange(size, 1, n * m)
            /\ cBuf[1] = n
            /\ cBuf[2] = m
            /\ \A k \in 1..(n * m) :
                  LET L == cBuf[start(k) + 1]
                      body == SubSeq(cBuf, start(k) + 2, start(k) + 1 + L)
                  IN  /\ L = Len(cell(k))
                      /\ Len(body) = L
                      /\ L > 0 => body[1] # 0
                      /\ \A t \in 1..L : body[t] = cell(k)[L + 1 - t]

C2_Witness ==
    /\ EncodedFromMatrix
    /\ cErr = ""
    /\ Len(cIdx0) = 2
    /\ Len(cIdx0[1]) = 2
    /\ cIdx0[1][1] = SetUint64(256)
    /\ cIdx0[2][1] = SetUint64(0)
    /\ Len(cBuf) = 9

(* The bytes Bytes gives for ExampleMatrix: the zero cell is the single    *)
(* length byte 00.                                                         *)
ExampleBytes == <<2, 2, 1, 1, 2, 1, 0, 3, 1, 0, 0, 0>>

(* C3 as stated: encoding [[1,256],[65536,0]] yields the 13 bytes          *)
(* 02 02 01 01 02 01 00 03 01 00 00 01 00, and decoding those bytes        *)
(* reproduces the matrix.                                                  *)
C3_AsStated ==
    /\ (EncodedFromMatrix /\ cIdx0 = ExampleMatrix) =>
          (cErr = "" /\ cBuf = ExampleBytesOfSpec)
    /\ (DecodedFromBytes /\ cBuf0 = ExampleBytesOfSpec) =>
          (cErr = "" /\ cIdx = ExampleMatrix)

(* C3 amended: encoding [[1,256],[65536,0]] yields the 12 bytes            *)
(* 02 02 01 01 02 01 00 03 01 00 00 00 (the zero cell is the length byte   *)
(* 00 with no magnitude byte), and decoding those bytes reproduces the     *)
(* matrix.                                                                 *)
C3_Example ==
    /\ (EncodedFromMatrix /\ cIdx0 = ExampleMatrix) =>
          (cErr = "" /\ cBuf = ExampleBytes)
    /\ (RoundTripped /\ cIdx0 = ExampleMatrix) =>
          (cErr = "" /\ cBuf = ExampleBytes /\ cIdx = ExampleMatrix)

C3_Witness ==
    /\ RoundTripped
    /\ cIdx0 = ExampleMatrix
    /\ cBuf = ExampleBytes
    /\ cIdx = ExampleMatrix

(* C4: Bytes returns an error and no bytes when the matrix has zero rows,  *)
(* more than 255 rows, a row 0 wider than 255, a cell longer than 255      *)
(* bytes or a row whose width differs from row 0's, and succeeds in every  *)
(* other case.                                                             *)
C4_EncodeErrors ==
    (cHist = <<"Bytes">> /\ cBuf0 = <<>>) =>
        LET M == cIdx0
            zeroRows == Len(M) = 0
            tooManyRows == Len(M) > MaxSizeByte
            tooWide == Len(M) > 0 /\ Len(M[1]) > MaxSizeByte
            ragged == \E i \in 1..Len(M) : Len(M[i]) # Len(M[1])
            longCell == \E i \in 1..Len(M) : \E j \in 1..Len(M[i]) :
                            Len(M[i][j]) > MaxSizeByte
        IN  /\ (cErr # "") <=>
                  (zeroRows \/ tooManyRows \/ tooWide \/ ragged \/ longCell)
            /\ cErr # "" => cBuf = <<>>
            /\ cErr = "" => Len(cBuf) >= 2
            /\ cErr # Panic

(* A cell-length overflow met after earlier cells were appended. *)
C4_Witness ==
    /\ cHist = <<"Bytes">>
    /\ cIdx0 = << <<SetUint64(1)>>, <<BigOfLen(MaxSizeByte + 1)>> >>
    /\ cErr = ErrCell
    /\ cBuf = <<>>

(* Whether k cells, each a length byte followed by that many bytes, lie    *)
(* within b from the 0-based position pos on.                              *)
RECURSIVE CellsFit(_, _, _)
CellsFit(b, pos, k) ==
    IF k = 0 THEN TRUE
    ELSE /\ pos + 1 <= Len(b)
         /\ pos + 1 + b[pos + 1] <= Len(b)
         /\ CellsFit(b, pos + 1 + b[pos + 1], k - 1)

(* The 0-based position of the length byte of cell k (k >= 1). *)
RECURSIVE CellPos(_, _)
CellPos(b, k) ==
    IF k = 1 THEN 2 ELSE LET p == CellPos(b, k - 1) IN p + 1 + b[p + 1]

(* C5: SetBytes fails exactly when the input has fewer than 2 bytes or a   *)
(* cell's length byte or body would lie past the end of the input; it      *)
(* never reads outside the input; a cell whose length byte is 0 is the     *)
(* integer zero.                                                           *)
C5_DecodeErrors ==
    DecodedFromBytes =>
        LET b == cBuf0
            short == Len(b) < 2
        IN  /\ cErr # Panic
            /\ (cErr # "") <=> (short \/ ~CellsFit(b, 2, b[1] * b[2]))
            /\ cErr = "" =>
                  /\ Len(cIdx) = b[1]
                  /\ \A i \in 1..b[1] :
                        /\ Len(cIdx[i]) = b[2]
                        /\ \A j \in 1..b[2] :
                              b[CellPos(b, (i - 1) * b[2] + j) + 1] = 0
                                 => cIdx[i][j] = SetUint64(0)

C5_Witness ==
    /\ DecodedFromBytes
    /\ cBuf0 = <<1, 2, 0, 1, 2>>
    /\ cErr = ""
    /\ cIdx = << <<SetUint64(0), SetUint64(2)>> >>

ReEncoded == cHist = <<"SetBytes", "Bytes">> /\ cIdx0 = <<>>

(* The 0-based position after the last of the b[0]*b[1] cells of b. *)
cellsEnd(b) == CellPos(b, b[1] * b[2] + 1)

(* Whether some cell of b has a magnitude whose first byte is zero. *)
zeroLedCell(b) ==
    \E k \in 1..(b[1] * b[2]) :
        LET p == CellPos(b, k) IN b[p + 1] > 0 /\ b[p + 2] = 0

(* Whether b is the form Bytes writes: nothing after the last cell and no  *)
(* magnitude with a leading zero byte.                                     *)
canonicalBytes(b) == Len(b) = cellsEnd(b) /\ ~zeroLedCell(b)

(* For every b that SetBytes decodes with a row count n >= 1, Bytes on the *)
(* decoded matrix succeeds and gives b back exactly when b is canonical.   *)
reEncodedCanonical ==
    (ReEncoded /\ cBuf0[1] >= 1) =>
        /\ cErr = ""
        /\ (cBuf = cBuf0) <=> canonicalBytes(cBuf0)

(* An empty matrix decoded from a zero row count is rejected by Bytes. *)
zeroRowsRejected ==
    (ReEncoded /\ cBuf0[1] = 0) =>
        (cIdx = <<>> /\ cErr = ErrEmpty /\ cBuf = <<>>)

(* C23 as stated: for every byte string b on which SetBytes succeeds with  *)
(* a row count n >= 1, Bytes on the decoded matrix succeeds and its output *)
(* equals b if and only if b has no bytes after the last cell and no cell  *)
(* in b starts with a zero byte; when the first byte of b is 0, SetBytes   *)
(* succeeds with an empty matrix that Bytes then rejects as empty.         *)
C23_AsStated ==
    /\ reEncodedCanonical
    /\ (DecodedFromBytes /\ Len(cBuf0) >= 1 /\ cBuf0[1] = 0) =>
          (cErr = "" /\ cIdx = <<>>)
    /\ zeroRowsRejected

(* C23 amended: for every byte string b on which SetBytes succeeds with a  *)
(* row count n >= 1, Bytes on the decoded matrix succeeds and its output   *)
(* equals b if and only if b has no bytes after the last cell and no cell  *)
(* magnitude in b starts with a zero byte; when b has at least two bytes   *)
(* and its first byte is 0, SetBytes succeeds with an empty matrix that    *)
(* Bytes then rejects as empty; the single byte 0 is rejected by SetBytes  *)
(* as too short.                                                           *)
C23_Canonical ==
    /\ reEncodedCanonical
    /\ (DecodedFromBytes /\ Len(cBuf0) >= 2 /\ cBuf0[1] = 0) =>
          (cErr = "" /\ cIdx = <<>>)
    /\ (DecodedFromBytes /\ cBuf0 = <<0>>) => cErr = ErrShort
    /\ zeroRowsRejected

(* A cell with a leading zero byte comes back one byte shorter. *)
C23_Witness ==
    /\ ReEncoded
    /\ cBuf0 = <<1, 1, 2, 0, 1>>
    /\ cIdx = << <<SetUint64(1)>> >>
    /\ cErr = ""
    /\ cBuf = <<1, 1, 1, 1>>

(* Bytes after the last cell are dropped. *)
C23_TrailingDropped ==
    ReEncoded /\ cBuf0 = <<1, 1, 1, 2, 0>> /\ cBuf = <<1, 1, 1, 2>>

(* A zero row count with cells behind it decodes to the empty matrix. *)
C23_ZeroRows ==
    ReEncoded /\ cBuf0 = <<0, 2, 1, 1>> /\ cIdx = <<>> /\ cErr = ErrEmpty

-----------------------------------------------------------------------------
(* Properties of the ring builder and the key deriver, checked under       *)
(* SpecRing.                                                               *)

RingBuilt == rPc \in {"ring", "keys"}
RingFinished == (rPc = "ring" /\ rRing.err # "") \/ rPc = "keys"
RingSucceeded == rPc = "keys" /\ rRing.err = "" /\ rKeys.err = ""

RECURSIVE sumAmounts(_, _)
sumAmounts(coins, k) ==
    IF k = 0 THEN 0 ELSE sumAmounts(coins, k - 1) + coins[k].amount

(* The committed amounts balance: inputs = outputs + fee. *)
AmountsBalance(a) ==
    sumAmounts(a.inputCoins, Len(a.inputCoins))
        = sumAmounts(a.outputCoins, Len(a.outputCoins)) + a.params.Fee

(* The commitment sums are equal as points: inputs = outputs + fee * G_value. *)
CommitmentSumsEqual(a) ==
    sumCommitments(a.inputCoins, Len(a.inputCoins))
        = PointAdd(sumCommitments(a.outputCoins, Len(a.outputCoins)), Commit(a.params.Fee, 0))

KeysParse(a) == \A j \in 1..Len(a.inputCoins) : ~a.inputCoins[j].keyErr

(* Output k's amount changed by d. *)
perturbed(a, k, d) ==
    [a EXCEPT !.outputCoins[k] =
        [@ EXCEPT !.amount = @ + d, !.commitment = Commit(a.outputCoins[k].amount + d, a.outputCoins[k].randomness)]]

(* The ring builder followed by the key deriver on arguments a. *)
deriveAfterRing(a) ==
    LET ring == generateMLSAGRingWithIndexes(a.inputCoins, a.outputCoins, a.params, a.pi, a.ringSize)
    IN  IF ring.err # "" THEN [privKeyMlsag |-> <<>>, err |-> ring.err]
        ELSE createPrivKeyMlsag(a.inputCoins, a.outputCoins, ring.commitmentToZero)

PerturbedFails(a) ==
    \A k \in 1..Len(a.outputCoins) : \A d \in {-1, 1} :
        a.outputCoins[k].amount + d >= 0 =>
            deriveAfterRing(perturbed(a, k, d)).err = ErrMismatch

(* C8 as stated: ring builder and key deriver succeed if and only if the   *)
(* sum of the input commitments equals the sum of the output commitments   *)
(* plus the zero-randomness commitment to the fee; from a balanced         *)
(* transaction, one output amount changed by 1 gives the mismatch error.   *)
C8_AsStated ==
    /\ RingFinished => (RingSucceeded <=> CommitmentSumsEqual(rArgs))
    /\ (RingSucceeded /\ CommitmentSumsEqual(rArgs)) => PerturbedFails(rArgs)

(* C8 amended: when the ring builder succeeded and every input's private   *)
(* key parses, the key deriver succeeds if and only if the committed       *)
(* amounts balance (inputs = outputs + fee), the commitment sums then      *)
(* differing by the randomness generator times the randomness difference,  *)
(* and otherwise fails with the mismatch error; a success of both always   *)
(* means balanced amounts; from a balanced transaction, one output amount  *)
(* changed by 1 gives the mismatch error.                                  *)
C8_Balance ==
    /\ RingSucceeded => AmountsBalance(rArgs)
    /\ CommitmentSumsEqual(rArgs) => AmountsBalance(rArgs)
    /\ (rPc = "keys" /\ KeysParse(rArgs)) =>
          /\ rKeys.err = "" <=> AmountsBalance(rArgs)
          /\ rKeys.err # "" => rKeys.err = ErrMismatch
          /\ rKeys.err = "" =>
                /\ Len(rKeys.privKeyMlsag) = Len(rArgs.inputCoins) + 1
                /\ rRing.commitmentToZero =
                      ScalarMult(PedComGRandomness,
                                 rKeys.privKeyMlsag[Len(rArgs.inputCoins) + 1])
    /\ (RingSucceeded /\ AmountsBalance(rArgs)) => PerturbedFails(rArgs)

(* A balanced transaction of two outputs and a fee, whose commitment sums  *)
(* differ, signed off by the key deriver.                                  *)
C8_Witness ==
    /\ RingSucceeded
    /\ Len(rArgs.outputCoins) = 2
    /\ Len(rArgs.inputCoins) = 2
    /\ rArgs.params.Fee = 1
    /\ AmountsBalance(rArgs)
    /\ ~CommitmentSumsEqual(rArgs)

(* What Kvargs holds under a key: a list of the type, of some length. *)
holdsList(kv, key, T) == ~kv.isNil /\ key \in DOMAIN kv.m /\ kv.m[key].type = T
holdsLen(kv, key, T, len) == holdsList(kv, key, T) /\ Len(kv.m[key].list) = len

DecoysExact(a) ==
    LET need == Len(a.inputCoins) * (a.ringSize - 1)
        kv == a.params.Kvargs
    IN  /\ holdsLen(kv, KeyCommitmentIndices, TUint64s, need)
        /\ holdsLen(kv, KeyCommitments, TPoints, need)
        /\ holdsLen(kv, KeyPublicKeys, TPoints, need)
        /\ holdsLen(kv, KeyMyIndices, TUint64s, Len(a.inputCoins))

OneDecoyListShort(a) ==
    LET need == Len(a.inputCoins) * (a.ringSize - 1)
        kv == a.params.Kvargs
    IN  \/ holdsLen(kv, KeyCommitmentIndices, TUint64s, need - 1)
        \/ holdsLen(kv, KeyCommitments, TPoints, need - 1)
        \/ holdsLen(kv, KeyPublicKeys, TPoints, need - 1)

MyIndicesOff(a) ==
    /\ holdsList(a.params.Kvargs, KeyMyIndices, TUint64s)
    /\ Len(a.params.Kvargs.m[KeyMyIndices].list) # Len(a.inputCoins)

C10_RingShape ==
    RingBuilt =>
        LET n == Len(rArgs.inputCoins)
            R == rArgs.ringSize
            p == ParseParamsForRing(rArgs.params.Kvargs, n, R)
        IN  /\ p.err # "" => rRing.err = p.err
            /\ p.err = "" =>
                  /\ rRing.err = ""
                  /\ Len(rRing.ring) = R
                  /\ Len(rRing.indices) = R
                  /\ \A i \in 1..R :
                        /\ Len(rRing.ring[i]) = n + 1
                        /\ Len(rRing.indices[i]) = n
                        /\ \A j \in 1..(n + 1) : rRing.ring[i][j] # NilPoint

C10_Witness ==
    /\ RingBuilt
    /\ rRing.err = ""
    /\ rArgs.ringSize = 3
    /\ rArgs.pi = 2
    /\ Len(rArgs.inputCoins) = 2
    /\ Len(rRing.ring) = 3
    /\ Len(rRing.ring[3]) = 3

(* The parsed decoy data and dimensions of the run at hand. *)
ringN == Len(rArgs.inputCoins)
ringR == rArgs.ringSize
ringP == ParseParamsForRing(rArgs.params.Kvargs, ringN, ringR)
ringBuiltOk == RingBuilt /\ rRing.err = ""

(* The decoy block a row reads: rows before pi their own, rows after it    *)
(* the one before.                                                         *)
blockOf(i, pi) == IF i < pi THEN i ELSE i - 1

(* Kvargs with every decoy list cut to its first len entries. *)
kvTruncated(kv, len) ==
    [kv EXCEPT !.m = [key \in DOMAIN kv.m |->
        IF key \in {KeyCommitmentIndices, KeyCommitments, KeyPublicKeys}
        THEN [kv.m[key] EXCEPT !.list = SubSeq(@, 1, len)]
        ELSE kv.m[key]]]

(* C15: decoy cursor order.  In a ring that was built, column j of a decoy *)
(* row i takes its public key, its index and the commitment added to the   *)
(* row sum from position k*numInputs + j of the flat lists, k being i for  *)
(* rows before pi and i-1 for rows after it; the positions lie within the  *)
(* first numInputs*(R-1) entries, no access leaves the lists, and entries  *)
(* beyond them do not change the result.                                   *)
C15_DecoyCursor ==
    /\ RingBuilt => rRing.err # Panic
    /\ ringBuiltOk =>
        /\ \A i \in 0..(ringR - 1) : i # rArgs.pi =>
              LET k == blockOf(i, rArgs.pi)
              IN  /\ \A j \in 0..(ringN - 1) :
                        LET pos == k * ringN + j
                        IN  /\ pos < ringN * (ringR - 1)
                            /\ pos < Len(ringP.publicKeys)
                            /\ pos < Len(ringP.cmtIndices)
                            /\ pos < Len(ringP.commitments)
                            /\ rRing.ring[i + 1][j + 1] = ringP.publicKeys[pos + 1]
                            /\ rRing.indices[i + 1][j + 1] = SetUint64(ringP.cmtIndices[pos + 1])
                  /\ rRing.ring[i + 1][ringN + 1] =
                        addPoints(PointSub(Identity,
                                      CalculateSumOutputsWithFee(rArgs.outputCoins, rArgs.params.Fee)),
                                  [j \in 1..ringN |-> ringP.commitments[k * ringN + j]], ringN)
        /\ generateMLSAGRingWithIndexes(rArgs.inputCoins, rArgs.outputCoins,
              [rArgs.params EXCEPT !.Kvargs = kvTruncated(@, ringN * (ringR - 1))],
              rArgs.pi, ringR) = rRing

(* Two inputs, ring size 3, the real row in the middle, and one entry more *)
(* than needed in the decoy lists.                                         *)
C15_Witness ==
    /\ ringBuiltOk
    /\ ringN = 2 /\ ringR = 3 /\ rArgs.pi = 1
    /\ Len(ringP.publicKeys) = 5
    /\ Len(ringP.cmtIndices) = 5
    /\ Len(ringP.commitments) = 5
    /\ rRing.ring[3][1] = ringP.publicKeys[3]

DecoysValid(a) ==
    LET need == Len(a.inputCoins) * (a.ringSize - 1)
        kv == a.params.Kvargs
    IN  /\ holdsList(kv, KeyCommitmentIndices, TUint64s)
        /\ Len(kv.m[KeyCommitmentIndices].list) >= need
        /\ holdsList(kv, KeyCommitments, TPoints)
        /\ Len(kv.m[KeyCommitments].list) >= need
        /\ holdsList(kv, KeyPublicKeys, TPoints)
        /\ Len(kv.m[KeyPublicKeys].list) >= need
        /\ holdsLen(kv, KeyMyIndices, TUint64s, Len(a.inputCoins))

-----------------------------------------------------------------------------
(* Properties of the transaction, checked under Spec. *)

InitReturned == txPc = "done"
InitSucceeded == txPc = "done" /\ txErr = ""

(* Values of a signature field: nil, empty, and some bytes. *)
SigSamples == {NilBytes, EmptyBytes, SomeBytes(<<9>>), SomeBytes(<<2, 2, 1, 0>>)}

(* The serialization of t in which Sig and SigPubKey are present and empty. *)
withEmptySigFields(t) ==
    [jsonMarshal(t) EXCEPT !.Sig = [null |-> FALSE, base64 |-> <<>>],
                           !.SigPubKey = [null |-> FALSE, base64 |-> <<>>]]

C7_AsStated ==
    InitSucceeded => Hash(jsonUnmarshal(jsonMarshal(tx))) = Hash(tx)

(* What the code does guarantee: the comparison is made on the path that   *)
(* goes through prove.                                                     *)
C7_ProvePathStable ==
    InitSucceeded /\ txMsg # <<>> => Hash(jsonUnmarshal(jsonMarshal(tx))) = Hash(tx)

(* The mismatch is reported on the path through prove. *)
C7_MismatchReported ==
    /\ InitReturned
    /\ txErr = ErrHashChanged


(* The serialized length of the transaction Init left. *)
txLen == jsonLen(jsonMarshal(tx))

(* C11, as stated: Init returns success only for a transaction whose size, *)
(* in units of 1024 bytes rounded up, is within the limit.                 *)
C11_AsStated ==
    InitSucceeded => GetTxActualSize(tx) <= MaxTxSize

(* What the code does guarantee: on the path through prove a transaction   *)
(* of exactly MaxTxSize * 1024 bytes passes and one byte more fails.       *)
C11_ProvePath ==
    InitReturned /\ txMsg # <<>> =>
        /\ (txErr = "" => txLen <= MaxTxSize * Kb)
        /\ (txErr = ErrExceedSize => txLen > MaxTxSize * Kb)
        /\ (txErr \in {"", ErrExceedSize} =>
               (GetTxActualSize(tx) <= MaxTxSize <=> txLen <= MaxTxSize * Kb))

C11_AtLimit == InitSucceeded /\ txMsg # <<>> /\ txLen = MaxTxSize * Kb

C11_OverLimit == InitReturned /\ txErr = ErrExceedSize /\ txLen = MaxTxSize * Kb + 1

(* C13, as stated: when Init fails, Proof, SigPubKey and Sig of the        *)
(* transaction object are what they were before the call.                  *)
C13_AsStated ==
    InitReturned /\ txErr # "" =>
        /\ tx.Proof = tx0.Proof
        /\ tx.SigPubKey = tx0.SigPubKey
        /\ tx.Sig = tx0.Sig

(* The case the claim names: after the balance mismatch the object holds   *)
(* the proof and the encoded index matrix, and no signature.               *)
C13_MismatchLeavesPartial ==
    /\ InitReturned
    /\ txErr = ErrMismatch
    /\ tx0.Proof.isNil /\ ~tx.Proof.isNil
    /\ tx0.SigPubKey.isNil /\ ~tx.SigPubKey.isNil
    /\ tx.Sig.isNil

(* The private scalars createPrivKeyMlsag derives in a call of Init with   *)
(* the parameters at hand, as SetPrivateKey would store them.              *)
derivedKeys ==
    {ArrayScalarToBytes(createPrivKeyMlsag(txParams.InputCoins, txParams.outputCoins,
                            generateMLSAGRingWithIndexes(txParams.InputCoins,
                                txParams.outputCoins, txParams, pi,
                                txParams.ringSize).commitmentToZero).privKeyMlsag) :
        pi \in {q \in 0..(txParams.ringSize - 1) :
                  LET g == generateMLSAGRingWithIndexes(txParams.InputCoins,
                               txParams.outputCoins, txParams, q, txParams.ringSize)
                  IN  /\ g.err = ""
                      /\ createPrivKeyMlsag(txParams.InputCoins, txParams.outputCoins,
                                            g.commitmentToZero).err = ""}}

(* C18, as stated: after Init returns, no field of the transaction object  *)
(* holds the derived private scalars.                                      *)
C18_AsStated ==
    InitReturned => tx.sigPrivKey \notin derivedKeys

(* What does hold: the private key field is not part of the serialization, *)
(* and the row index pi is in no field.                                    *)
C18_NotSerialized ==
    InitReturned =>
        "sigPrivKey" \notin DOMAIN jsonMarshal(tx)

SalaryReturned == txPc = "salaryDone"
SalarySucceeded == txPc = "salaryDone" /\ txErr = ""

(* C14: after a successful InitTxSalary the transaction has version 2, the *)
(* reward type and a non-zero lock time; its proof holds no input and      *)
(* exactly the supplied coin as output; and Sig and SigPubKey are the      *)
(* non-ring signature, under the given private key, of a message that is   *)
(* the hash of the returned transaction (so it was taken after version,    *)
(* type, lock time, proof and metadata were set).                          *)
C14_Salary ==
    SalarySucceeded =>
        /\ tx.Version = TxVersion2Number
        /\ tx.Type = TxRewardType
        /\ tx.LockTime # 0
        /\ (tx0.LockTime # 0 => tx.LockTime = tx0.LockTime)
        /\ tx.Proof.inputCoins = <<>>
        /\ tx.Proof.outputCoins =
              <<[publicKey |-> GetPublicKey(txParams.otaCoin),
                 commitment |-> GetCommitment(txParams.otaCoin)]>>
        /\ tx.Metadata = txParams.MetaData
        /\ txMsg = <<Hash(tx)>>
        /\ tx.Sig = SignNoPrivacy(txParams.privateKey, Hash(tx)).Sig
        /\ tx.SigPubKey = SignNoPrivacy(txParams.privateKey, Hash(tx)).SigPubKey

(* A salary transaction with a metadata, built on an object that had no    *)
(* lock time.                                                              *)
C14_Witness ==
    /\ SalarySucceeded
    /\ tx0 = NewTx
    /\ ~tx.Metadata.isNil
    /\ tx.LockTime = txParams.now
    /\ Len(tx.Sig.b) > 0

C20_HashTwice ==
    /\ Len(hLog) = 2
    /\ hLog[1].op = "Hash"
    /\ hLog[2].op = "Hash"
    /\ Len(tx.Sig.b) > 0 /\ Len(tx.SigPubKey.b) > 0

InitCalled == txPc \in {"done", "again"}
InitCalledAgain == txPc = "again"

(* The calls of signOnMessage that returned a nil error. *)
ringSignings == {k \in 1..Len(sLog) : sLog[k].err = ""}

(* C21: signOnMessage accepts only an unsigned transaction.  When the      *)
(* transaction's Sig is set it returns the 'must be an unsigned one' error *)
(* whatever the random index, the ring parameters and the later steps      *)
(* would have given, and leaves the transaction (Sig, SigPubKey and the    *)
(* stored private key included) as it was; a nil error is returned for an  *)
(* unsigned transaction only and leaves Sig set, so an object is           *)
(* ring-signed at most once.                                               *)
C21_SignsUnsignedOnly ==
    /\ \A k \in 1..Len(sLog) :
          LET e == sLog[k]
          IN  /\ ~e.in.Sig.isNil =>
                    /\ e.err = ErrSigned
                    /\ e.out = e.in
              /\ e.err = "" => (e.in.Sig.isNil /\ ~e.out.Sig.isNil)
              /\ (k < Len(sLog) /\ e.err = "") => sLog[k + 1].err = ErrSigned
    /\ Cardinality(ringSignings) <= 1
    /\ (InitCalled /\ txErr = ErrSigned) =>
          /\ Len(sLog) > 0
          /\ tx = sLog[Len(sLog)].out
          /\ tx.Sig = sLog[Len(sLog)].in.Sig
          /\ tx.SigPubKey = sLog[Len(sLog)].in.SigPubKey
          /\ tx.sigPrivKey = sLog[Len(sLog)].in.sigPrivKey

(* Init ring-signed the object; called again on the same object it is      *)
(* refused as signed and the signature stays.                              *)
C21_Witness ==
    /\ InitCalledAgain
    /\ Len(sLog) = 2
    /\ sLog[1].err = ""
    /\ sLog[2].err = ErrSigned
    /\ sLog[2].out = sLog[2].in
    /\ tx.Sig = sLog[1].out.Sig
    /\ tx.SigPubKey = sLog[1].out.SigPubKey
    /\ txErr = ErrSigned

(* An object that came with a signature is refused although the random     *)
(* index could not be drawn.                                               *)
C21_SignedBeforeRand ==
    /\ txPc = "done"
    /\ ~tx0.Sig.isNil
    /\ txParams.fault = "rand"
    /\ txErr = ErrSigned
    /\ tx.Sig = tx0.Sig /\ tx.SigPubKey = tx0.SigPubKey

(* A first call that failed in sag.Sign left the object unsigned, and the  *)
(* second call signed it.                                                  *)
C21_RetryAfterFailure ==
    /\ InitCalledAgain
    /\ Len(sLog) = 2
    /\ sLog[1].err = ErrSign
    /\ sLog[2].err = ""
    /\ txErr = ""

(* Whether t holds an MLSAG signature. *)
ringSignature(t) ==
    /\ ~t.Sig.isNil
    /\ Len(t.Sig.b) > 0
    /\ t.Sig.b[1].scheme = "mlsag"

(* The message under the MLSAG signature t holds. *)
signedMessage(t) == t.Sig.b[1].msg

(* C22: the ring signature covers the final transaction.  The message      *)
(* under the signature is Tx.Hash of the transaction with the proof        *)
(* attached and the metadata signed; signOnMessage changed only Sig,       *)
(* SigPubKey and the private key after that; and after a successful Init   *)
(* Hash of the finished transaction is the message that was signed.        *)
C22_SignatureCoversTx ==
    /\ (InitCalled /\ ringSignature(tx)) =>
          \E k \in ringSignings :
              LET e == sLog[k]
              IN  /\ e.out.Sig = tx.Sig
                  /\ signedMessage(tx) = Hash(e.in)
                  /\ ~e.in.Proof.isNil
                  /\ e.in.Metadata.isNil \/ e.in.Metadata.signed
                  /\ e.out = [e.in EXCEPT !.Sig = e.out.Sig,
                                          !.SigPubKey = e.out.SigPubKey,
                                          !.sigPrivKey = e.out.sigPrivKey]
    /\ (InitCalled /\ txErr = "" /\ ringSignature(tx)) =>
          /\ tx = sLog[Len(sLog)].out
          /\ Hash(tx) = signedMessage(tx)

(* A ring-signed transaction of two inputs with a metadata that signed     *)
(* itself before the hash was taken.                                       *)
C22_Witness ==
    /\ txPc = "done"
    /\ txErr = ""
    /\ ringSignature(tx)
    /\ Len(tx.Proof.inputCoins) = 2
    /\ ~tx.Metadata.isNil
    /\ tx.Metadata.signed
    /\ signedMessage(tx) = Hash(tx)
    /\ signedMessage(tx) # Hash([tx EXCEPT !.Metadata.signed = FALSE])


-----------------------------------------------------------------------------
(* Properties of ListOTAHashH, checked under SpecOTA. *)

OtaReturned == oPc = "done"

(* How often x occurs in the sequence s. *)
occurrences(s, x) == Cardinality({i \in 1..Len(s) : s[i] = x})

(* The proof with its output coins rearranged by the permutation p. *)
permuted(proof, p) ==
    [proof EXCEPT !.outputCoins = [j \in 1..Len(proof.outputCoins) |-> proof.outputCoins[p[j]]]]

(* C12: ListOTAHashH returns one hash per output coin whose public key is  *)
(* not the burning address, each the hash of that public key, in ascending *)
(* order of the hashes' string forms; the result is the same for every     *)
(* permutation of the output coins and is empty without a proof.           *)
C12_ListOTAHashH ==
    OtaReturned =>
        /\ (oProof.isNil => oResult = <<>>)
        /\ Len(oResult) =
              Cardinality({j \in 1..Len(oProof.outputCoins) :
                             oProof.outputCoins[j].publicKey # BurnKey})
        /\ \A k \in OtaKeys \ {BurnKey} :
              occurrences(oResult, HashH(k)) =
                  occurrences(oProof.outputCoins, [publicKey |-> k])
        /\ \A i, j \in 1..Len(oResult) :
              i < j => HashString(oResult[i]) <= HashString(oResult[j])
        /\ \A p \in Permutations(1..Len(oProof.outputCoins)) :
              ListOTAHashH(permuted(oProof, p)) = oResult

(* Three outputs, the second sent to the burning address, the other two    *)
(* not in the order of their hashes: two hashes are returned.              *)
C12_Witness ==
    /\ OtaReturned
    /\ Len(oProof.outputCoins) = 3
    /\ oProof.outputCoins[2].publicKey = BurnKey
    /\ oProof.outputCoins[1].publicKey # BurnKey
    /\ oProof.outputCoins[3].publicKey # BurnKey
    /\ HashString(HashH(oProof.outputCoins[1].publicKey))
          > HashString(HashH(oProof.outputCoins[3].publicKey))
    /\ Len(oResult) = 2


-----------------------------------------------------------------------------
(* Properties of the base58 caches, checked under SpecCache. *)

(* What the call recorded in kLast returns when both caches are empty. *)
uncached ==
    IF kLast.op = "ToBase58" THEN ToBase58(kLast.pubKey, <<>>).result
    ELSE GetMiningKeyBase58(kLast.pubKey, kLast.schemeName, <<>>).result

(* C19, as stated: after any sequence of earlier calls, ToBase58 and       *)
(* GetMiningKeyBase58 return what they return with empty caches.           *)
C19_AsStated ==
    kCalls > 0 => kLast.result = uncached

(* The first call of a run is answered from an empty cache. *)
C19_FirstCall ==
    kCalls = 1 => kLast.result = uncached

(* A key without a mining key for the scheme gets the string cached for    *)
(* another key with the same RawBytes.                                     *)
C19_WrongMiningKey ==
    /\ kCalls = 2
    /\ kLast.op = "GetMiningKeyBase58"
    /\ kLast.schemeName \notin DOMAIN kLast.pubKey.MiningPubKey
    /\ kLast.result # EmptyString

====
